---- MODULE Spec2Model ----
(***************************************************************************)
(* A model of the two algorithmic cores of the repository:                 *)
(*   - the snapshot stability timeline, in its two implementations         *)
(*       analysis/live/analyze_stability.py  analyze_archived_snapshots    *)
(*       analysis/analyze_stability.py       compute_archive_snapshot_...  *)
(*   - the security header normalisation and classification engine         *)
(*       analysis/header_utils.py, analysis/security_enums.py              *)
(* Header values are sequences of character codes (ASCII), so that         *)
(* lower(), split(), strip(), sorted() and the regular expressions of the  *)
(* source are computed, not assumed.                                       *)
(***************************************************************************)
EXTENDS Integers, Sequences, FiniteSets, TLC

(***************************************************************************)
(* Bounds of the model.                                                    *)
(***************************************************************************)
\* days of one timeline (the source walks n + 1 = 15 days)
NDays == 5
\* largest distance, in days, between a capture and the requested day
MaxDrift == 2

\* the number of levels max_enum is folded over
MaxLevels == 3

\* the length of a job list
MaxJobs == 4
\* the number of partitions of a job list
MaxPartitions == 3

\* the number of lexemes (tokens or directives) of a raw header value
MaxLexemes == 2

\* the characters of header values, each with its code: the ASCII characters
\* from the space to the tilde in the order of their codes (without the grave
\* accent, 96), and the tabulator, the line feed and the carriage return
Characters ==
    {<<SubSeq(text, k, k), 31 + k>> :
        k \in 1..64,
        text \in {" !\"#$%&'()*+,-./0123456789:;<=>?@ABCDEFGHIJKLMNOPQRSTUVWXYZ[\\]^_"}}
    \cup {<<SubSeq(text, k, k), 96 + k>> :
            k \in 1..30, text \in {"abcdefghijklmnopqrstuvwxyz{|}~"}}
    \cup {<<"\t", 9>>, <<"\n", 10>>, <<"\r", 13>>}

\* ord(c)
Ord == [c \in {p[1] : p \in Characters} |-> (CHOOSE p \in Characters : p[1] = c)[2]]

\* a str, as the sequence of the codes of its characters
Str(s) == [k \in 1..Len(s) |-> Ord[SubSeq(s, k, k)]]

(***************************************************************************)
(* Strings. A string is a sequence of character codes; the operators below *)
(* are the str methods and built-ins the header engine calls.              *)
(***************************************************************************)
\* str.lower() on ASCII
lower(s) == [k \in 1..Len(s) |-> IF s[k] \in 65..90 THEN s[k] + 32 ELSE s[k]]

\* str.upper() on ASCII
upper(s) == [k \in 1..Len(s) |-> IF s[k] \in 97..122 THEN s[k] - 32 ELSE s[k]]

\* the characters str.strip() and str.split() take for whitespace (ASCII)
IsSpace(c) == c \in (9..13) \cup (28..32)

SetMin(S) == CHOOSE x \in S : \A y \in S : x <= y

SetMax(S) == CHOOSE x \in S : \A y \in S : x >= y

\* a local variable: Body of the value
With(value, Body(_)) == Body(value)

\* str.strip()
strip(s) ==
    With({k \in 1..Len(s) : ~IsSpace(s[k])}, LAMBDA ink :
        IF ink = {} THEN <<>> ELSE SubSeq(s, SetMin(ink), SetMax(ink)))

\* str.split(sep) for a separator of one character
RECURSIVE split(_, _)
split(s, sep) ==
    With({k \in 1..Len(s) : s[k] = sep}, LAMBDA at :
        IF at = {} THEN <<s>>
        ELSE With(SetMin(at), LAMBDA first :
                <<SubSeq(s, 1, first - 1)>> \o split(SubSeq(s, first + 1, Len(s)), sep)))

\* the end of the run of characters that are not whitespace and starts at from
run_end(s, from) ==
    With({k \in from..Len(s) : IsSpace(s[k])}, LAMBDA gaps :
        IF gaps = {} THEN Len(s) ELSE SetMin(gaps) - 1)

\* str.split(): the maximal runs of characters that are not whitespace
RECURSIVE split_ws(_)
split_ws(s) ==
    With({k \in 1..Len(s) : ~IsSpace(s[k])}, LAMBDA ink :
        IF ink = {} THEN <<>>
        ELSE With(SetMin(ink), LAMBDA from :
             With(run_end(s, from), LAMBDA to :
                <<SubSeq(s, from, to)>> \o split_ws(SubSeq(s, to + 1, Len(s))))))

\* sep.join(list)
RECURSIVE join(_, _)
join(sep, list) ==
    IF list = <<>> THEN <<>>
    ELSE IF Len(list) = 1 THEN list[1]
    ELSE list[1] \o sep \o join(sep, Tail(list))

\* the first index at which a and b differ, 0 when one is a prefix of the other
first_difference(a, b) ==
    With({k \in 1..Len(a) : k <= Len(b) /\ a[k] # b[k]}, LAMBDA d :
        IF d = {} THEN 0 ELSE SetMin(d))

\* a <= b for str: the order of the code points, a prefix first
str_le(a, b) ==
    With(first_difference(a, b), LAMBDA d :
        IF d = 0 THEN Len(a) <= Len(b) ELSE a[d] < b[d])

\* the index of the first least element of a list of str
least_of(list) ==
    CHOOSE k \in 1..Len(list) :
        /\ \A j \in 1..Len(list) : str_le(list[k], list[j])
        /\ \A j \in 1..(k - 1) : list[j] # list[k]

\* sorted(list) and list.sort() for a list of str
RECURSIVE sorted(_)
sorted(list) ==
    IF list = <<>> THEN <<>>
    ELSE With(least_of(list), LAMBDA least :
            <<list[least]>>
              \o sorted([k \in 1..(Len(list) - 1) |->
                            IF k < least THEN list[k] ELSE list[k + 1]]))

\* sorted(set) for a set of str
RECURSIVE sorted_set(_)
sorted_set(S) ==
    IF S = {} THEN <<>>
    ELSE With(CHOOSE x \in S : \A y \in S : str_le(x, y), LAMBDA least :
            <<least>> \o sorted_set(S \ {least}))

\* the elements of a list, as a set
Range(list) == {list[k] : k \in 1..Len(list)}

\* s[from:].startswith(word), compared without case
starts_at(s, from, word) ==
    /\ from + Len(word) - 1 <= Len(s)
    /\ lower(SubSeq(s, from, from + Len(word) - 1)) = lower(word)

(***************************************************************************)
(* analysis/security_enums.py                                              *)
(***************************************************************************)
Member(enum, name, value) == [enum |-> enum, name |-> name, value |-> value]

\* the member of smaller value
min_enum(first, second) == IF first.value <= second.value THEN first ELSE second

\* max_enum(first, second)
max_enum(first, second) == IF first.value >= second.value THEN first ELSE second

HSTSAge ==
    [DISABLED |-> Member("HSTSAge", "DISABLED", 0 - 1),
     ABSENT |-> Member("HSTSAge", "ABSENT", 0),
     LOW |-> Member("HSTSAge", "LOW", 1),
     BIG |-> Member("HSTSAge", "BIG", 2)]

HSTSSub ==
    [ABSENT |-> Member("HSTSSub", "ABSENT", 0),
     ACTIVE |-> Member("HSTSSub", "ACTIVE", 1)]

HSTSPreload ==
    [ABSENT |-> Member("HSTSPreload", "ABSENT", 0),
     ACTIVE |-> Member("HSTSPreload", "ACTIVE", 1)]

XFO ==
    [UNSAFE |-> Member("XFO", "UNSAFE", 0),
     SAMEORIGIN |-> Member("XFO", "SAMEORIGIN", 1),
     DENY |-> Member("XFO", "DENY", 2)]

CspXSS ==
    [UNSAFE |-> Member("CspXSS", "UNSAFE", 0),
     SAFE |-> Member("CspXSS", "SAFE", 1)]

CspFA ==
    [UNSAFE |-> Member("CspFA", "UNSAFE", 0),
     CONSTRAINED |-> Member("CspFA", "CONSTRAINED", 1),
     SELF |-> Member("CspFA", "SELF", 2),
     NONE |-> Member("CspFA", "NONE", 3)]

CspTLS ==
    [UNSAFE |-> Member("CspTLS", "UNSAFE", 0),
     BLOCK_ALL_MIXED_CONTENT |-> Member("CspTLS", "BLOCK_ALL_MIXED_CONTENT", 1),
     UPGRADE_INSECURE_REQUESTS |-> Member("CspTLS", "UPGRADE_INSECURE_REQUESTS", 2)]

RP ==
    [UNSAFE_URL |-> Member("RP", "UNSAFE_URL", 0),
     SAME_ORIGIN |-> Member("RP", "SAME_ORIGIN", 1),
     NO_REFERRER |-> Member("RP", "NO_REFERRER", 2),
     NO_REFERRER_WHEN_DOWNGRADE |-> Member("RP", "NO_REFERRER_WHEN_DOWNGRADE", 3),
     ORIGIN |-> Member("RP", "ORIGIN", 4),
     ORIGIN_WHEN_CROSS_ORIGIN |-> Member("RP", "ORIGIN_WHEN_CROSS_ORIGIN", 5),
     STRICT_ORIGIN |-> Member("RP", "STRICT_ORIGIN", 6),
     STRICT_ORIGIN_WHEN_CROSS_ORIGIN |->
         Member("RP", "STRICT_ORIGIN_WHEN_CROSS_ORIGIN", 7)]

COOP ==
    [UNSAFE_NONE |-> Member("COOP", "UNSAFE_NONE", 0),
     SAME_ORIGIN |-> Member("COOP", "SAME_ORIGIN", 1),
     SAME_ORIGIN_ALLOW_POPUPS |-> Member("COOP", "SAME_ORIGIN_ALLOW_POPUPS", 2)]

CORP ==
    [CROSS_ORIGIN |-> Member("CORP", "CROSS_ORIGIN", 0),
     SAME_SITE |-> Member("CORP", "SAME_SITE", 1),
     SAME_ORIGIN |-> Member("CORP", "SAME_ORIGIN", 2)]

COEP ==
    [UNSAFE_NONE |-> Member("COEP", "UNSAFE_NONE", 0),
     REQUIRE_CORP |-> Member("COEP", "REQUIRE_CORP", 1),
     CREDENTIALLESS |-> Member("COEP", "CREDENTIALLESS", 2)]

\* the members of an enumeration
Members(E) == {E[n] : n \in DOMAIN E}

(***************************************************************************)
(* analysis/header_utils.py. An optional value (an absent header, a None   *)
(* origin or port, a None valid_directives) is <<>> when absent and <<v>>  *)
(* when present. A call that raises gives Raised(exception).               *)
(***************************************************************************)
Raised(exception) == [raised |-> exception]

IsRaised(x) == DOMAIN x = {"raised"}

\* Origin(protocol, host, port)
Origin(protocol, host, port) == [protocol |-> protocol, host |-> host, port |-> port]

\* Origin.__str__
origin_str(origin) ==
    IF origin.port = <<>> THEN origin.protocol \o Str("://") \o origin.host
    ELSE origin.protocol \o Str("://") \o origin.host \o Str(":") \o origin.port[1]

\* ---- Strict-Transport-Security

\* normalize_hsts(value)
normalize_hsts(value) ==
    With(split(split(lower(value), Ord[","])[1], Ord[";"]), LAMBDA parts :
        join(Str(";"), sorted([k \in 1..Len(parts) |-> strip(parts[k])])))

\* an age that takes max-age=0 for a low age
classify_hsts_age_zero_low(max_age) ==
    IF max_age = <<>> THEN HSTSAge.ABSENT
    ELSE IF max_age[1] < 0 THEN HSTSAge.DISABLED
    ELSE IF max_age[1] < 60 * 60 * 24 * 365 THEN HSTSAge.LOW
    ELSE HSTSAge.BIG

\* classify_hsts_age(max_age); max_age is <<>> for None
classify_hsts_age(max_age) ==
    IF max_age = <<>> THEN HSTSAge.ABSENT
    ELSE IF max_age[1] <= 0 THEN HSTSAge.DISABLED
    ELSE IF max_age[1] < 60 * 60 * 24 * 365 THEN HSTSAge.LOW
    ELSE HSTSAge.BIG

IsDigit(c) == c \in 48..57

\* int(digits)
RECURSIVE int(_)
int(digits) ==
    IF digits = <<>> THEN 0
    ELSE 10 * int(SubSeq(digits, 1, Len(digits) - 1)) + (digits[Len(digits)] - Ord["0"])

\* the length of the longest prefix of digits of body
digits_end(body) ==
    With({k \in 1..Len(body) : ~IsDigit(body[k])}, LAMBDA stop :
        IF stop = {} THEN Len(body) ELSE SetMin(stop) - 1)

\* re.match(r'max-age=("?)(\d+)\1$', token): <<>> without a match, else
\* <<group 2>>
max_age_match(token) ==
    IF ~(Len(token) >= 8 /\ SubSeq(token, 1, 8) = Str("max-age=")) THEN <<>>
    ELSE With(SubSeq(token, 9, Len(token)), LAMBDA rest :
         With(rest # <<>> /\ rest[1] = Ord["\""], LAMBDA quoted :
         With(IF quoted THEN Tail(rest) ELSE rest, LAMBDA body :
         With(digits_end(body), LAMBDA n :
         With(SubSeq(body, n + 1, Len(body)), LAMBDA after :
         With(IF quoted THEN Str("\"") ELSE <<>>, LAMBDA close :
            IF n >= 1 /\ (after = close \/ after = close \o Str("\n"))
            THEN <<SubSeq(body, 1, n)>>
            ELSE <<>>))))))

\* one token of a loop that lets a repeated directive overwrite the earlier one
hsts_token_overwrite(token, directive, st) ==
    IF directive = Str("max-age")
    THEN With(max_age_match(token), LAMBDA match :
            IF match = <<>> THEN <<>>
            ELSE <<[st EXCEPT !.max_age = <<int(match[1])>>]>>)
    ELSE <<[st EXCEPT
              !.include_sub_domains = @ \/ directive = Str("includesubdomains"),
              !.preload = @ \/ directive = Str("preload")]>>

\* classify_hsts, lines 132-146: one token of the loop. The state of the loop
\* is (max_age, include_sub_domains, preload, seen_directives); the result is
\* <<>> when the loop returns the all-ABSENT triple and <<state>> otherwise.
hsts_token(token, directive, st) ==
    IF directive \in st.seen_directives THEN <<>>
    ELSE IF directive = Str("max-age")
    THEN With(max_age_match(token), LAMBDA match :
            IF match = <<>> THEN <<>>
            ELSE <<[st EXCEPT !.max_age = <<int(match[1])>>,
                              !.seen_directives = @ \cup {directive}]>>)
    ELSE <<[st EXCEPT
              !.include_sub_domains = @ \/ directive = Str("includesubdomains"),
              !.preload = @ \/ directive = Str("preload"),
              !.seen_directives = @ \cup {directive}]>>

\* classify_hsts, lines 131-147: the loop over the tokens from token k on
RECURSIVE hsts_tokens(_, _, _)
hsts_tokens(tokens, k, st) ==
    IF k > Len(tokens) THEN <<st>>
    ELSE With(hsts_token(tokens[k], split(tokens[k], Ord["="])[1], st), LAMBDA next :
            IF next = <<>> THEN <<>> ELSE hsts_tokens(tokens, k + 1, next[1]))

\* a triple whose Preload does not ask for includeSubDomains
hsts_triple_preload_alone(classified_max_age, include_sub_domains, preload) ==
    <<classified_max_age,
      IF include_sub_domains
         /\ classified_max_age \notin {HSTSAge.ABSENT, HSTSAge.DISABLED}
      THEN HSTSSub.ACTIVE ELSE HSTSSub.ABSENT,
      IF preload /\ classified_max_age = HSTSAge.BIG
      THEN HSTSPreload.ACTIVE ELSE HSTSPreload.ABSENT>>

\* classify_hsts, lines 149-155: the triple of a max_age and the two flags
hsts_triple(classified_max_age, include_sub_domains, preload) ==
    <<classified_max_age,
      IF include_sub_domains
         /\ classified_max_age \notin {HSTSAge.ABSENT, HSTSAge.DISABLED}
      THEN HSTSSub.ACTIVE ELSE HSTSSub.ABSENT,
      IF preload /\ include_sub_domains /\ classified_max_age = HSTSAge.BIG
      THEN HSTSPreload.ACTIVE ELSE HSTSPreload.ABSENT>>

\* classify_hsts(value)
classify_hsts(value) ==
    With(hsts_tokens(split(normalize_hsts(value), Ord[";"]), 1,
                     [max_age |-> <<>>, include_sub_domains |-> FALSE,
                      preload |-> FALSE, seen_directives |-> {}]), LAMBDA end :
        IF end = <<>> THEN <<HSTSAge.ABSENT, HSTSSub.ABSENT, HSTSPreload.ABSENT>>
        ELSE hsts_triple(classify_hsts_age(end[1].max_age),
                         end[1].include_sub_domains, end[1].preload))

\* ---- X-Frame-Options

\* a normalizer that sorts the tokens and keeps their case
normalize_xfo_keep_case(value) ==
    With(split(value, Ord[","]), LAMBDA parts :
        join(Str(","), sorted([k \in 1..Len(parts) |-> strip(parts[k])])))

\* normalize_xfo(value)
normalize_xfo(value) ==
    With(split(lower(value), Ord[","]), LAMBDA parts :
        join(Str(","), sorted([k \in 1..Len(parts) |-> strip(parts[k])])))

\* a classifier that takes the first token of the normalized value
classify_xfo_first_token(value) ==
    With(split(normalize_xfo(value), Ord[","])[1], LAMBDA v :
        IF v = Str("deny") THEN XFO.DENY
        ELSE IF v = Str("sameorigin") THEN XFO.SAMEORIGIN
        ELSE XFO.UNSAFE)

\* classify_xfo(value)
classify_xfo(value) ==
    With(normalize_xfo(value), LAMBDA v :
        IF v = Str("deny") THEN XFO.DENY
        ELSE IF v = Str("sameorigin") THEN XFO.SAMEORIGIN
        ELSE XFO.UNSAFE)

\* ---- Content-Security-Policy

\* the characters of [A-Za-z0-9+/\-_]
IsBase64(c) ==
    c \in (65..90) \cup (97..122) \cup (48..57) \cup {43, 47, 45, 95}

\* the end of  [A-Za-z0-9+/\-_]+={0,2}'  matched from s[b] on; 0 without a
\* match
value_end(s, b) ==
    With({k \in b..Len(s) : ~IsBase64(s[k])}, LAMBDA stop :
    With(IF stop = {} THEN Len(s) + 1 ELSE SetMin(stop), LAMBDA e :
    With(IF e <= Len(s) /\ s[e] = Ord["="]
         THEN (IF e + 1 <= Len(s) /\ s[e + 1] = Ord["="] THEN e + 2 ELSE e + 1)
         ELSE e, LAMBDA q :
        IF e > b /\ q <= Len(s) /\ s[q] = Ord["'"] THEN q ELSE 0)))

\* the end of the match of  prefix[A-Za-z0-9+/\-_]+={0,2}'  that starts at
\* s[p], prefix compared without case; 0 without a match
value_token_match(s, p, prefix) ==
    IF s[p] = Ord["'"] /\ starts_at(s, p, prefix)
    THEN value_end(s, p + Len(prefix)) ELSE 0

\* a substitution that leaves the nonces in place
sub_nonce_kept(s) == s

\* re.sub(r"'nonce-[A-Za-z0-9+/\-_]+={0,2}'", "'nonce-VALUE'", value,
\*        flags=re.IGNORECASE): the leftmost match is replaced, and the
\* search goes on behind it
RECURSIVE sub_nonce(_)
sub_nonce(s) ==
    With({p \in 1..Len(s) : value_token_match(s, p, Str("'nonce-")) > 0}, LAMBDA at :
        IF at = {} THEN s
        ELSE With(SetMin(at), LAMBDA p :
                SubSeq(s, 1, p - 1) \o Str("'nonce-VALUE'")
                  \o sub_nonce(SubSeq(s, value_end(s, p + 7) + 1, Len(s)))))

\* the end of the match of  'sha(256|384|512)-[A-Za-z0-9+/\-_]+={0,2}'  that
\* starts at s[p]; 0 without a match
sha_match(s, p) ==
    IF \E prefix \in {Str("'sha256-"), Str("'sha384-"), Str("'sha512-")} :
          s[p] = Ord["'"] /\ starts_at(s, p, prefix)
    THEN value_end(s, p + 8) ELSE 0

\* re.sub(r"'sha(256|384|512)-[A-Za-z0-9+/\-_]+={0,2}'", r"'sha\1-VALUE'",
\*        value, flags=re.IGNORECASE)
RECURSIVE sub_sha(_)
sub_sha(s) ==
    With({p \in 1..Len(s) : sha_match(s, p) > 0}, LAMBDA at :
        IF at = {} THEN s
        ELSE With(SetMin(at), LAMBDA p :
                SubSeq(s, 1, p - 1) \o Str("'sha") \o SubSeq(s, p + 4, p + 6)
                  \o Str("-VALUE'")
                  \o sub_sha(SubSeq(s, value_end(s, p + 8) + 1, Len(s)))))

\* the length of the group of  report-(uri|to)  matched at s[p], without
\* case; 0 without a match
report_match(s, p) ==
    IF s[p] \notin {Ord["r"], Ord["R"]} THEN 0
    ELSE IF starts_at(s, p, Str("report-uri")) THEN 3
    ELSE IF starts_at(s, p, Str("report-to")) THEN 2
    ELSE 0

\* the end of  [^;,]*  matched from s[p] on, and one more
argument_end(s, p) ==
    With({k \in p..Len(s) : s[k] \in {Ord[";"], Ord[","]}}, LAMBDA stop :
        IF stop = {} THEN Len(s) + 1 ELSE SetMin(stop))

\* re.sub(r"report-(uri|to)[^;,]*", r"report-\1 REPORT_URI", value,
\*        flags=re.IGNORECASE)
RECURSIVE sub_report(_)
sub_report(s) ==
    With({p \in 1..Len(s) : report_match(s, p) > 0}, LAMBDA at :
        IF at = {} THEN s
        ELSE With(SetMin(at), LAMBDA p :
                SubSeq(s, 1, p - 1) \o Str("report-")
                  \o SubSeq(s, p + 7, p + 6 + report_match(s, p))
                  \o Str(" REPORT_URI")
                  \o sub_report(SubSeq(s, argument_end(s, p), Len(s)))))

\* normalize_csp, lines 189-193: one directive of a policy, as the list of
\* its normalized text, empty when the directive is skipped; valid_directives
\* is <<>> for None and <<list>> for a list of directive names
normalize_directive(tokens, valid_directives) ==
    IF tokens = <<>> THEN <<>>
    ELSE IF valid_directives # <<>> /\ tokens[1] \notin Range(valid_directives[1])
    THEN <<>>
    ELSE <<join(Str(" "), <<tokens[1]>> \o sorted(Tail(tokens)))>>

\* normalize_csp, lines 189-193: the directives from directive d on
RECURSIVE normalize_directives(_, _, _)
normalize_directives(directives, d, valid_directives) ==
    IF d > Len(directives) THEN <<>>
    ELSE normalize_directive(split_ws(strip(directives[d])), valid_directives)
           \o normalize_directives(directives, d + 1, valid_directives)

\* normalize_csp, lines 186-196: one policy
normalize_policy(policy, valid_directives) ==
    join(Str(";"),
         sorted(normalize_directives(split(strip(policy), Ord[";"]), 1,
                                     valid_directives)))

\* normalize_csp(value, valid_directives)
normalize_csp(value, valid_directives) ==
    With(split(lower(sub_report(sub_sha(sub_nonce(value)))), Ord[","]),
         LAMBDA policies :
            join(Str(","), sorted([k \in 1..Len(policies) |->
                            normalize_policy(policies[k], valid_directives)])))

\* CSP.add_directive(name, values): the dictionary after the call. A CSP is a
\* function from the directive names, in lower case, to sets of tokens.
add_directive(csp, name, values) ==
    IF lower(name) \in DOMAIN csp THEN csp ELSE csp @@ (lower(name) :> values)

\* CaseInsensitiveDict.get(key, default): <<value>>, or default (<<>> for
\* None) when the key is absent
csp_get(csp, key, default) ==
    IF lower(key) \in DOMAIN csp THEN <<csp[lower(key)]>> ELSE default

\* parse_csp, lines 213-217: the directives of a policy from directive d on,
\* added to csp
RECURSIVE parse_directives(_, _, _)
parse_directives(directives, d, csp) ==
    IF d > Len(directives) THEN csp
    ELSE With(split_ws(strip(directives[d])), LAMBDA tokens :
            IF tokens = <<>> THEN parse_directives(directives, d + 1, csp)
            ELSE parse_directives(directives, d + 1,
                    add_directive(csp, tokens[1], Range(Tail(tokens)))))

\* parse_csp, lines 212-218: one policy
parse_policy(policy) == parse_directives(split(strip(policy), Ord[";"]), 1, <<>>)

\* parse_csp(value)
parse_csp(value) ==
    With(split(strip(value), Ord[","]), LAMBDA policies :
        [k \in 1..Len(policies) |-> parse_policy(policies[k])])

\* XSS-Mitigation

\* is_unsafe_inline_active(directive)
is_unsafe_inline_active(directive) ==
    /\ Str("'unsafe-inline'") \in directive
    /\ directive \cap {Str("'nonce-VALUE'"), Str("'sha256-VALUE'"),
                       Str("'sha384-VALUE'"), Str("'sha512-VALUE'"),
                       Str("'strict-dynamic'")} = {}

\* a classification that reads default-src before script-src
classify_xss_mitigation_default_first(csp) ==
    With(csp_get(csp, Str("default-src"), csp_get(csp, Str("script-src"), <<>>)),
         LAMBDA directive :
            IF directive = <<>> THEN CspXSS.UNSAFE
            ELSE IF is_unsafe_inline_active(directive[1]) THEN CspXSS.UNSAFE
            ELSE IF directive[1] \cap {Str("*"), Str("http:"), Str("http://"),
                                       Str("http://*"), Str("https:"),
                                       Str("https://"), Str("https://*"),
                                       Str("data:")} # {}
                    /\ Str("'strict-dynamic'") \notin directive[1]
            THEN CspXSS.UNSAFE
            ELSE CspXSS.SAFE)

\* classify_xss_mitigation(csp)
classify_xss_mitigation(csp) ==
    With(csp_get(csp, Str("script-src"), csp_get(csp, Str("default-src"), <<>>)),
         LAMBDA directive :
            IF directive = <<>> THEN CspXSS.UNSAFE
            ELSE IF is_unsafe_inline_active(directive[1]) THEN CspXSS.UNSAFE
            ELSE IF directive[1] \cap {Str("*"), Str("http:"), Str("http://"),
                                       Str("http://*"), Str("https:"),
                                       Str("https://"), Str("https://*"),
                                       Str("data:")} # {}
                    /\ Str("'strict-dynamic'") \notin directive[1]
            THEN CspXSS.UNSAFE
            ELSE CspXSS.SAFE)

\* classify_policy_xss(policy)
classify_policy_xss(policy) ==
    IF Str("script-src") \in DOMAIN policy \/ Str("default-src") \in DOMAIN policy
    THEN classify_xss_mitigation(policy)
    ELSE CspXSS.UNSAFE

\* a loop that keeps the classification of the last policy
RECURSIVE max_over_last(_, _, _)
max_over_last(classified, k, res) ==
    IF k > Len(classified) THEN res
    ELSE IF IsRaised(classified[k]) THEN classified[k]
    ELSE max_over_last(classified, k + 1, classified[k])

\* res = max_enum(res, classified[k]) for the policies from k on; a policy
\* whose classification raises ends the loop with the exception
RECURSIVE max_over(_, _, _)
max_over(classified, k, res) ==
    IF k > Len(classified) THEN res
    ELSE IF IsRaised(classified[k]) THEN classified[k]
    ELSE max_over(classified, k + 1, max_enum(res, classified[k]))

\* classify_csp_xss(value)
classify_csp_xss(value) ==
    With(parse_csp(normalize_csp(value, <<>>)), LAMBDA policies :
        max_over([k \in 1..Len(policies) |-> classify_policy_xss(policies[k])],
                 1, CspXSS.UNSAFE))

\* Framing-Control

\* str(origin) without the protocol: the host, with the port if there is one
origin_domain(o) ==
    IF o.port = <<>> THEN o.host ELSE o.host \o Str(":") \o o.port[1]

\* self expressions without the https forms of the origin
framing_self_expressions_same_scheme(o) ==
    {Str("'self'"), origin_str(o), origin_str(o) \o Str("/"),
     origin_domain(o), origin_domain(o) \o Str("/")}

\* classify_framing_control, lines 256-258
framing_self_expressions(o) ==
    {Str("'self'"), origin_str(o), origin_str(o) \o Str("/"),
     Str("https://") \o origin_domain(o),
     Str("https://") \o origin_domain(o) \o Str("/"),
     origin_domain(o), origin_domain(o) \o Str("/")}

\* classify_framing_control(directive, origin); origin is <<>> for None
classify_framing_control(directive, origin) ==
    IF directive = {} \/ directive = {Str("'none'")} THEN CspFA.NONE
    ELSE IF origin = <<>> THEN Raised("AttributeError")
    ELSE IF directive \subseteq framing_self_expressions(origin[1]) THEN CspFA.SELF
    ELSE IF directive \cap {Str("*"), Str("http:"), Str("http://"),
                            Str("http://*"), Str("https:"), Str("https://"),
                            Str("https://*")} # {}
    THEN CspFA.UNSAFE
    ELSE CspFA.CONSTRAINED

\* classify_policy_fa(policy, origin)
classify_policy_fa(policy, origin) ==
    IF Str("frame-ancestors") \in DOMAIN policy
    THEN classify_framing_control(policy[Str("frame-ancestors")], origin)
    ELSE CspFA.UNSAFE

\* classify_csp_fa(value, origin)
classify_csp_fa(value, origin) ==
    With(parse_csp(normalize_csp(value, <<>>)), LAMBDA policies :
        max_over([k \in 1..Len(policies) |-> classify_policy_fa(policies[k], origin)],
                 1, CspFA.UNSAFE))

\* TLS-Enforcement

\* a classification that looks for upgrade-insecure-requests first
classify_policy_tls_upgrade_first(policy) ==
    IF Str("upgrade-insecure-requests") \in DOMAIN policy
    THEN CspTLS.UPGRADE_INSECURE_REQUESTS
    ELSE IF Str("block-all-mixed-content") \in DOMAIN policy
    THEN CspTLS.BLOCK_ALL_MIXED_CONTENT
    ELSE CspTLS.UNSAFE

\* classify_policy_tls(policy)
classify_policy_tls(policy) ==
    IF Str("block-all-mixed-content") \in DOMAIN policy
    THEN CspTLS.BLOCK_ALL_MIXED_CONTENT
    ELSE IF Str("upgrade-insecure-requests") \in DOMAIN policy
    THEN CspTLS.UPGRADE_INSECURE_REQUESTS
    ELSE CspTLS.UNSAFE

\* a classification that looks at the directives of all policies at once
classify_csp_tls_merged(value) ==
    With(parse_csp(normalize_csp(value, <<>>)), LAMBDA policies :
        IF \E k \in 1..Len(policies) : Str("block-all-mixed-content") \in DOMAIN policies[k]
        THEN CspTLS.BLOCK_ALL_MIXED_CONTENT
        ELSE IF \E k \in 1..Len(policies) :
                   Str("upgrade-insecure-requests") \in DOMAIN policies[k]
        THEN CspTLS.UPGRADE_INSECURE_REQUESTS
        ELSE CspTLS.UNSAFE)

\* classify_csp_tls(value)
classify_csp_tls(value) ==
    With(parse_csp(normalize_csp(value, <<>>)), LAMBDA policies :
        max_over([k \in 1..Len(policies) |-> classify_policy_tls(policies[k])],
                 1, CspTLS.UNSAFE))

\* All use-cases

\* classify_csp(value, origin): the tuple, or the exception of
\* classify_csp_fa
classify_csp(value, origin) ==
    With(classify_csp_fa(value, origin), LAMBDA fa :
        IF IsRaised(fa) THEN fa
        ELSE <<classify_csp_xss(value), fa, classify_csp_tls(value)>>)

\* ---- Permissions-Policy

\* the index of the first "=" of a directive, 0 without one
equals_index(directive) ==
    With({k \in 1..Len(directive) : directive[k] = Ord["="]}, LAMBDA eq :
        IF eq = {} THEN 0 ELSE SetMin(eq))

\* the indexes after "=(" at n of a ")" that "(.*)\)" can end at
closing_indexes(directive, n) ==
    {k \in (n + 2)..Len(directive) :
        /\ directive[k] = Ord[")"]
        /\ \A j \in (n + 2)..(k - 1) : directive[j] # Ord["\n"]}

\* the match of a directive whose first "=" is at n
allowlist_match_at(directive, with_star, n, close) ==
    IF n < 2 \/ n = Len(directive) THEN <<>>
    ELSE IF with_star /\ directive[n + 1] = Ord["*"]
    THEN <<[name |-> SubSeq(directive, 1, n - 1), star |-> TRUE,
            content |-> <<>>]>>
    ELSE IF directive[n + 1] = Ord["("] /\ close # {}
    THEN <<[name |-> SubSeq(directive, 1, n - 1), star |-> FALSE,
            content |-> SubSeq(directive, n + 2, SetMax(close) - 1)]>>
    ELSE <<>>

\* re.match(r"([^=]+)=(\*|\((.*)\))", directive) and, without the star,
\* re.match(r"([^=]+)=\((.*)\)", directive): <<>> without a match, else
\* <<[name, star, content]>>
allowlist_match(directive, with_star) ==
    With(equals_index(directive), LAMBDA n :
        allowlist_match_at(directive, with_star, n, closing_indexes(directive, n)))

\* [token.strip() for token in parts]
strip_all(parts) == [k \in 1..Len(parts) |-> strip(parts[k])]

\* the directives of a Permissions-Policy value, lines 307 and 322
policy_directives(value) == strip_all(split(lower(value), Ord[","]))

\* set(content.strip().split())
allowlist_content(m) == Range(split_ws(strip(m.content)))

\* normalize_permissions_policy, lines 310-315: the text of a matched directive
normalized_allowlist(m) ==
    IF m.star THEN m.name \o Str("=*")
    ELSE m.name \o Str("=(") \o join(Str(" "), sorted_set(allowlist_content(m)))
           \o Str(")")

\* normalize_permissions_policy, lines 307-315: the list directives from
\* directive k on
RECURSIVE normalized_allowlists(_, _)
normalized_allowlists(parts, k) ==
    IF k > Len(parts) THEN <<>>
    ELSE With(allowlist_match(parts[k], TRUE), LAMBDA m :
            IF m = <<>> THEN <<>> ELSE <<normalized_allowlist(m[1])>>)
         \o normalized_allowlists(parts, k + 1)

\* normalize_permissions_policy(value)
normalize_permissions_policy(value) ==
    join(Str(","), sorted(normalized_allowlists(policy_directives(value), 1)))

\* f'"{s}"'
quoted(s) == Str("\"") \o s \o Str("\"")

\* classify_permissions_policy, lines 330-333
allowlist_self_expressions(o) ==
    {quoted(origin_str(o)), quoted(origin_str(o) \o Str("/")),
     quoted(Str("https://") \o origin_domain(o)),
     quoted(Str("https://") \o origin_domain(o) \o Str("/")),
     quoted(origin_domain(o)), quoted(origin_domain(o) \o Str("/"))}

\* classify_permissions_policy, lines 323-328: the directive reaches line 330
reaches_origin(directive) ==
    With(allowlist_match(directive, FALSE), LAMBDA m :
        m # <<>> /\ Str("*") \notin allowlist_content(m[1]))

\* classify_permissions_policy, lines 334-339: the text of a directive whose
\* allowlist is content
classified_allowlist(name, content, self) ==
    name \o Str("=(")
      \o join(Str(" "), sorted_set(IF content \cap self # {}
                                   THEN (content \ self) \cup {Str("self")}
                                   ELSE content))
      \o Str(")")

\* classify_permissions_policy, lines 322-339: the list directives from
\* directive k on
RECURSIVE classified_allowlists(_, _, _)
classified_allowlists(parts, k, self) ==
    IF k > Len(parts) THEN <<>>
    ELSE (IF reaches_origin(parts[k])
          THEN With(allowlist_match(parts[k], FALSE)[1], LAMBDA m :
                    <<classified_allowlist(m.name, allowlist_content(m), self)>>)
          ELSE <<>>)
         \o classified_allowlists(parts, k + 1, self)

\* classify_permissions_policy(value, origin); origin is <<>> for None, and
\* origin.host at line 330 then raises
classify_permissions_policy(value, origin) ==
    With(policy_directives(value), LAMBDA parts :
        IF origin = <<>> /\ \E k \in 1..Len(parts) : reaches_origin(parts[k])
        THEN Raised("AttributeError")
        ELSE join(Str(","),
                  sorted(classified_allowlists(parts, 1,
                            IF origin = <<>> THEN {}
                            ELSE allowlist_self_expressions(origin[1])))))

\* ---- Referrer-Policy

\* normalize_referrer_policy(value)
normalize_referrer_policy(value) ==
    join(Str(","), strip_all(split(lower(value), Ord[","])))

REFERRER_POLICY_VALUES ==
    {Str("unsafe-url"), Str("same-origin"), Str("no-referrer"),
     Str("no-referrer-when-downgrade"), Str("origin"), Str("origin-when-cross-origin"),
     Str("strict-origin"), Str("strict-origin-when-cross-origin")}

\* the earliest valid token, '' without one
earliest_policy(tokens) ==
    With({k \in 1..Len(tokens) : tokens[k] \in REFERRER_POLICY_VALUES}, LAMBDA valid :
        IF valid = {} THEN Str("") ELSE tokens[SetMin(valid)])

\* classify_referrer_policy, lines 363-368: the latest valid token, '' without
\* one
latest_policy(tokens) ==
    With({k \in 1..Len(tokens) : tokens[k] \in REFERRER_POLICY_VALUES}, LAMBDA valid :
        IF valid = {} THEN Str("") ELSE tokens[SetMax(valid)])

\* classify_referrer_policy, lines 370-386
match_policy(policy) ==
    CASE policy = Str("unsafe-url") -> RP.UNSAFE_URL
      [] policy = Str("same-origin") -> RP.SAME_ORIGIN
      [] policy = Str("no-referrer") -> RP.NO_REFERRER
      [] policy = Str("no-referrer-when-downgrade") -> RP.NO_REFERRER_WHEN_DOWNGRADE
      [] policy = Str("origin") -> RP.ORIGIN
      [] policy = Str("origin-when-cross-origin") -> RP.ORIGIN_WHEN_CROSS_ORIGIN
      [] policy = Str("strict-origin") -> RP.STRICT_ORIGIN
      [] policy = Str("strict-origin-when-cross-origin") \/ policy = Str("")
           -> RP.STRICT_ORIGIN_WHEN_CROSS_ORIGIN

\* classify_referrer_policy(value)
classify_referrer_policy(value) ==
    match_policy(latest_policy(split(normalize_referrer_policy(value), Ord[","])))

\* ---- Cross-Origin-Opener-Policy

\* normalize_coop(value)
normalize_coop(value) == join(Str(";"), strip_all(split(value, Ord[";"])))

\* a match that takes every other directive for same-origin-allow-popups
match_coop_lenient(directive) ==
    IF directive = Str("same-origin") THEN COOP.SAME_ORIGIN
    ELSE COOP.SAME_ORIGIN_ALLOW_POPUPS

\* classify_coop, lines 398-404
match_coop(directive) ==
    IF directive = Str("same-origin") THEN COOP.SAME_ORIGIN
    ELSE IF directive = Str("same-origin-allow-popups") THEN COOP.SAME_ORIGIN_ALLOW_POPUPS
    ELSE COOP.UNSAFE_NONE

\* classify_coop(value)
classify_coop(value) == match_coop(split(normalize_coop(value), Ord[";"])[1])

\* ---- Cross-Origin-Resource-Policy

\* normalize_corp(value)
normalize_corp(value) == strip(value)

\* classify_corp, lines 417-423
match_corp(directive) ==
    IF directive = Str("same-origin") THEN CORP.SAME_ORIGIN
    ELSE IF directive = Str("same-site") THEN CORP.SAME_SITE
    ELSE CORP.CROSS_ORIGIN

\* classify_corp(value)
classify_corp(value) == match_corp(normalize_corp(value))

\* ---- Cross-Origin-Embedder-Policy

\* normalize_coep(value)
normalize_coep(value) == join(Str(";"), strip_all(split(value, Ord[";"])))

\* classify_coep, lines 436-442
match_coep(directive) ==
    IF directive = Str("credentialless") THEN COEP.CREDENTIALLESS
    ELSE IF directive = Str("require-corp") THEN COEP.REQUIRE_CORP
    ELSE COEP.UNSAFE_NONE

\* classify_coep(value): the directive is taken from normalize_coop
classify_coep(value) == match_coep(split(normalize_coop(value), Ord[";"])[1])

\* ---- normalize_headers and classify_headers

\* the keys of the result of normalize_headers and of classify_headers
Keys ==
    {"Strict-Transport-Security", "X-Frame-Options",
     "Content-Security-Policy::XSS", "Content-Security-Policy::FA",
     "Content-Security-Policy::TLS", "Content-Security-Policy",
     "Permissions-Policy", "Referrer-Policy", "Cross-Origin-Opener-Policy",
     "Cross-Origin-Resource-Policy", "Cross-Origin-Embedder-Policy"}

\* the header that the entry of a key is computed from
header_of(key) ==
    IF key \in {"Content-Security-Policy::XSS", "Content-Security-Policy::FA",
                "Content-Security-Policy::TLS"}
    THEN "Content-Security-Policy" ELSE key

\* the names of the headers of a Headers value
HeaderNames == {header_of(key) : key \in Keys}

\* normalize_headers, lines 49-83: the normalizer applied for a key
normalize(key, value) ==
    CASE key = "Strict-Transport-Security" -> normalize_hsts(value)
      [] key = "X-Frame-Options" -> normalize_xfo(value)
      [] key = "Content-Security-Policy::XSS" ->
            normalize_csp(value, <<<<Str("default-src"), Str("script-src")>>>>)
      [] key = "Content-Security-Policy::FA" ->
            normalize_csp(value, <<<<Str("frame-ancestors")>>>>)
      [] key = "Content-Security-Policy::TLS" ->
            normalize_csp(value, <<<<Str("block-all-mixed-content"),
                                     Str("upgrade-insecure-requests")>>>>)
      [] key = "Content-Security-Policy" -> normalize_csp(value, <<>>)
      [] key = "Permissions-Policy" -> normalize_permissions_policy(value)
      [] key = "Referrer-Policy" -> normalize_referrer_policy(value)
      [] key = "Cross-Origin-Opener-Policy" -> normalize_coop(value)
      [] key = "Cross-Origin-Resource-Policy" -> normalize_corp(value)
      [] key = "Cross-Origin-Embedder-Policy" -> normalize_coep(value)

\* a dictionary whose XSS entry is computed with the directives of the
\* framing entry
normalize_headers_copied(hdrs) ==
    [key \in Keys |->
        IF header_of(key) \in DOMAIN hdrs
        THEN normalize(IF key = "Content-Security-Policy::XSS"
                       THEN "Content-Security-Policy::FA" ELSE key,
                       hdrs[header_of(key)])
        ELSE Str("<MISSING>")]

\* normalize_headers(headers, _)
normalize_headers(hdrs) ==
    [key \in Keys |->
        IF header_of(key) \in DOMAIN hdrs
        THEN normalize(key, hdrs[header_of(key)])
        ELSE Str("<MISSING>")]

\* classify_headers, lines 90-100: the classifier applied for a key
classify(key, value, org) ==
    CASE key = "Strict-Transport-Security" -> classify_hsts(value)
      [] key = "X-Frame-Options" -> classify_xfo(value)
      [] key = "Content-Security-Policy::XSS" -> classify_csp_xss(value)
      [] key = "Content-Security-Policy::FA" -> classify_csp_fa(value, org)
      [] key = "Content-Security-Policy::TLS" -> classify_csp_tls(value)
      [] key = "Content-Security-Policy" -> classify_csp(value, org)
      [] key = "Permissions-Policy" -> classify_permissions_policy(value, org)
      [] key = "Referrer-Policy" -> classify_referrer_policy(value)
      [] key = "Cross-Origin-Opener-Policy" -> classify_coop(value)
      [] key = "Cross-Origin-Resource-Policy" -> classify_corp(value)
      [] key = "Cross-Origin-Embedder-Policy" -> classify_coep(value)

\* headers.get(name, '')
headers_get(hdrs, name) == IF name \in DOMAIN hdrs THEN hdrs[name] ELSE Str("")

\* classify_headers(headers, origin): the dictionary, or the exception of the
\* first entry whose classifier raises
classify_headers(hdrs, org) ==
    With([key \in Keys |-> classify(key, headers_get(hdrs, header_of(key)), org)],
         LAMBDA entries :
            IF IsRaised(entries["Content-Security-Policy::FA"])
            THEN entries["Content-Security-Policy::FA"]
            ELSE IF IsRaised(entries["Permissions-Policy"])
            THEN entries["Permissions-Policy"]
            ELSE entries)

(***************************************************************************)
(* Snapshot stability: analysis/live/stability_enums.py                    *)
(***************************************************************************)
Status == {"MISSING", "ADDED", "REMOVED", "MODIFIED", "UNMODIFIED"}

None == "None"

\* end_url values: the content identity of a snapshot
Snapshots == {"A", "B"}

\* capture times relative to the requested day, in days: out of tolerance
\* (before the requested day), on the day, and on the edge of the tolerance
Drifts == {0 - MaxDrift, 0, 1}

\* Rows of archive_data in analyze_archived_snapshots: (end_url,
\* memento_datetime, status_code). memento_datetime is <<>> for NULL and <<d>>
\* for a capture d days after requested_date. The query keeps a row only when
\* the Memento-Datetime header is present or the status code is 404.
LiveRows ==
    {r \in [end_url : Snapshots,
            memento_datetime : {<<>>} \cup {<<d>> : d \in Drifts},
            status_code : {200, 404}] :
        r.memento_datetime # <<>> \/ r.status_code = 404}

\* Rows of archive_data in compute_archive_snapshot_stability: (end_url, day,
\* status_code), day being the capture day of end_url, as days after DATE. The
\* query keeps status codes 200 and 404.
LegacyRows == [end_url : Snapshots, day : Drifts, status_code : {200, 404}]

VARIABLES
    program,            \* which program runs: "live", "legacy", "headers"
                        \* or "max_enum"
    pc,                 \* the position of the program
    i,                  \* number of days processed
    row,                \* <<>>: no row for the day; <<r>>: the day's row
    previous_status,
    previous_snapshot,
    result,             \* the timeline: result[k] is the status of day k
    events,             \* the observations of the days, as events
    was_removed,
    current_drifts,     \* day index -> drift of that day's capture
    drifts,             \* day index -> list of recorded drifts
    headers,            \* the Headers of one response: header name -> value
    origin,             \* <<>> for None, <<Origin(...)>> otherwise
    normalized,         \* the result of normalize_headers(headers, origin)
    classified,         \* the result of classify_headers(headers, origin)
    levels,             \* the Security Levels max_enum is folded over
    res,                \* the level folded so far
    folded,             \* the number of levels folded into res
    submitted,          \* the job list as the caller built it
    jobs,               \* the job list of partition_jobs or of a worker
    n_partitions,       \* n, the number of partitions
    partition,          \* partition[w] is the job list of worker w
    next_job,           \* the number of jobs taken from the list
    table,              \* the rows inserted into the database table
    outcomes,           \* outcomes[k]: what the request of job k meets
    live_data,          \* per day, <<>> or <<(headers, aggregated value)>>
    seen_values,        \* the values of the header seen so far
    stable,             \* per day, the flag of the stability timeline
    DEPLOYS,            \* result[tid][header]['DEPLOYS']
    archived_headers,   \* the Headers of the archived response
    comparison          \* the keys of the result of compare_security_headers
                        \* that hold the url

header_vars == <<headers, origin, normalized, classified>>

stability_vars ==
    <<i, row, previous_status, previous_snapshot, result, events,
      was_removed, current_drifts, drifts>>

enum_vars == <<levels, res, folded>>

crawl_vars ==
    <<submitted, jobs, n_partitions, partition, next_job, table, outcomes>>

live_vars == <<live_data, seen_values, stable, DEPLOYS>>

compare_vars == <<archived_headers, comparison>>

vars ==
    <<program, pc, stability_vars, header_vars, enum_vars, crawl_vars, live_vars,
      compare_vars>>

\* abs(memento_datetime - requested_date)
abs(d) == IF d < 0 THEN 0 - d ELSE d

\* a removal that is never cleared on a day without data
no_data_status_sticky(prev) ==
    IF prev \in {"ADDED", "MODIFIED"} THEN "UNMODIFIED" ELSE prev

\* lines 133-139 (live), 82-87 and 93-98 (legacy): a day without usable data
no_data_status(prev) ==
    IF prev \in {"ADDED", "MODIFIED"} THEN "UNMODIFIED"
    ELSE IF prev = "REMOVED" THEN "MISSING"
    ELSE prev

\* a removal that is reported also for a resource that is not there
removed_status_always(prev) == "REMOVED"

\* a removal that forgets the UNMODIFIED case
removed_status_narrow(prev) ==
    IF prev \in {"ADDED", "MODIFIED"} THEN "REMOVED" ELSE "MISSING"

\* lines 148-153 (live), 100-103 (legacy)
removed_status(prev) ==
    IF prev \in {"ADDED", "MODIFIED", "UNMODIFIED"} THEN "REMOVED" ELSE "MISSING"

\* a hit that takes a reappearance after REMOVED for a modification
hit_status_no_readd(prev, prev_snapshot, end_url) ==
    IF prev = "MISSING" THEN "ADDED"
    ELSE IF prev_snapshot # end_url THEN "MODIFIED" ELSE "UNMODIFIED"

\* lines 155-159 (live), 105-108 (legacy)
hit_status(prev, prev_snapshot, end_url) ==
    IF prev \in {"MISSING", "REMOVED"} THEN "ADDED"
    ELSE IF prev_snapshot # end_url THEN "MODIFIED" ELSE "UNMODIFIED"

\* analyze_archived_snapshots, line 147: the row counts as a removal
live_is_removal(r) ==
    r.memento_datetime = <<>> \/ abs(r.memento_datetime[1]) > 1

\* analyze_archived_snapshots, lines 132-159: the status of the day
live_status(prev, prev_snapshot, rw) ==
    IF rw = <<>> THEN no_data_status(prev)
    ELSE IF live_is_removal(rw[1]) THEN removed_status(prev)
    ELSE hit_status(prev, prev_snapshot, rw[1].end_url)

\* a snapshot that remembers the first Hit it saw, never a later one
live_snapshot_first(prev_snapshot, rw) ==
    IF rw # <<>> /\ ~live_is_removal(rw[1]) /\ prev_snapshot = None
    THEN rw[1].end_url ELSE prev_snapshot

\* analyze_archived_snapshots, line 161
live_snapshot(prev_snapshot, rw) ==
    IF rw # <<>> /\ ~live_is_removal(rw[1]) THEN rw[1].end_url ELSE prev_snapshot

\* compute_archive_snapshot_stability, lines 90-92: day not in DATE-1..DATE+1
legacy_out_of_tolerance(r) == r.day \notin {0 - 1, 0, 1}

\* compute_archive_snapshot_stability, lines 81-108
legacy_status(prev, prev_snapshot, rw) ==
    IF rw = <<>> THEN no_data_status(prev)
    ELSE IF legacy_out_of_tolerance(rw[1]) THEN no_data_status(prev)
    ELSE IF rw[1].status_code = 404 THEN removed_status(prev)
    ELSE hit_status(prev, prev_snapshot, rw[1].end_url)

\* compute_archive_snapshot_stability, line 110
legacy_snapshot(prev_snapshot, rw) ==
    IF rw # <<>> /\ ~legacy_out_of_tolerance(rw[1]) /\ rw[1].status_code # 404
    THEN rw[1].end_url ELSE prev_snapshot

\* The observation of a day in the vocabulary of the design: NoData, Miss404
\* (a 404 without capture), or Hit(contentIdentity, within tolerance or not).
NoData == [kind |-> "NoData"]
Miss404 == [kind |-> "Miss404"]
Hit(id, tol) == [kind |-> "Hit", id |-> id, tol |-> tol]

live_event(rw) ==
    IF rw = <<>> THEN NoData
    ELSE IF rw[1].memento_datetime = <<>> THEN Miss404
    ELSE Hit(rw[1].end_url, abs(rw[1].memento_datetime[1]) <= 1)

legacy_event(rw) ==
    IF rw = <<>> THEN NoData
    ELSE IF legacy_out_of_tolerance(rw[1]) THEN Hit(rw[1].end_url, FALSE)
    ELSE IF rw[1].status_code = 404 THEN Miss404
    ELSE Hit(rw[1].end_url, TRUE)

\* lines 126-130 (live), 77-78 (legacy): the state before the first day
InitStability ==
    /\ program \in {"live", "legacy"}
    /\ pc = "loop"
    /\ i = 0
    /\ row = <<>>
    /\ previous_status = "MISSING"
    /\ previous_snapshot = None
    /\ result = <<>>
    /\ events = <<>>
    /\ was_removed = FALSE
    /\ current_drifts = <<>>
    /\ drifts = <<>>
    /\ headers = <<>> /\ origin = <<>> /\ normalized = <<>> /\ classified = <<>>
    /\ levels = <<>> /\ res = <<>> /\ folded = 0
    /\ submitted = <<>> /\ jobs = <<>> /\ n_partitions = 0
    /\ partition = <<>>
    /\ next_job = 0 /\ table = <<>> /\ outcomes = <<>>
    /\ live_data = <<>> /\ seen_values = {} /\ stable = <<>>
    /\ DEPLOYS = FALSE
    /\ archived_headers = <<>> /\ comparison = {}

\* analyze_archived_snapshots, lines 131-164: one day of the loop
analyze_archived_snapshots_day ==
    /\ program = "live" /\ pc = "loop" /\ i < NDays
    /\ \E rw \in {<<>>} \cup {<<r>> : r \in LiveRows} :
        LET status == live_status(previous_status, previous_snapshot, rw) IN
        /\ row' = rw
        /\ current_drifts' =
              IF rw # <<>> /\ rw[1].memento_datetime # <<>>
              THEN current_drifts @@ (i :> rw[1].memento_datetime[1])
              ELSE current_drifts
        /\ was_removed' =
              (was_removed \/ (rw # <<>> /\ live_is_removal(rw[1])
                               /\ status = "REMOVED"))
        /\ previous_snapshot' = live_snapshot(previous_snapshot, rw)
        /\ result' = Append(result, status)
        /\ previous_status' = status
        /\ events' = Append(events, live_event(rw))
        /\ i' = i + 1
    /\ UNCHANGED <<program, pc, drifts, header_vars, enum_vars,
                   crawl_vars, live_vars,
                   compare_vars>>

\* a flush that does not ask whether the timeline had a removal
analyze_archived_snapshots_flush_always ==
    /\ program = "live" /\ pc = "loop" /\ i = NDays
    /\ drifts' = [k \in DOMAIN current_drifts |-> <<current_drifts[k]>>]
    /\ pc' = "done"
    /\ UNCHANGED <<program, i, row, previous_status, previous_snapshot, result,
                   events, was_removed, current_drifts, header_vars, enum_vars,
                   crawl_vars, live_vars,
                   compare_vars>>

\* analyze_archived_snapshots, lines 166-168: after the last day
analyze_archived_snapshots_flush ==
    /\ program = "live" /\ pc = "loop" /\ i = NDays
    /\ drifts' = IF was_removed
                 THEN [k \in DOMAIN current_drifts |-> <<current_drifts[k]>>]
                 ELSE drifts
    /\ pc' = "done"
    /\ UNCHANGED <<program, i, row, previous_status, previous_snapshot, result,
                   events, was_removed, current_drifts, header_vars, enum_vars,
                   crawl_vars, live_vars,
                   compare_vars>>

\* compute_archive_snapshot_stability, lines 80-113: one day of the loop
compute_archive_snapshot_stability_day ==
    /\ program = "legacy" /\ pc = "loop" /\ i < NDays
    /\ \E rw \in {<<>>} \cup {<<r>> : r \in LegacyRows} :
        LET status == legacy_status(previous_status, previous_snapshot, rw) IN
        /\ row' = rw
        /\ previous_snapshot' = legacy_snapshot(previous_snapshot, rw)
        /\ result' = Append(result, status)
        /\ previous_status' = status
        /\ events' = Append(events, legacy_event(rw))
        /\ i' = i + 1
    /\ UNCHANGED <<program, pc, was_removed, current_drifts, drifts, header_vars,
                   enum_vars,
                   crawl_vars, live_vars,
                   compare_vars>>

NextStability ==
    \/ analyze_archived_snapshots_day
    \/ analyze_archived_snapshots_flush
    \/ compute_archive_snapshot_stability_day

SpecStability == InitStability /\ [][NextStability]_vars

(***************************************************************************)
(* The header engine: one response's Headers, normalized and classified    *)
(* as analysis/historical/analyze_quality.py does for every response.      *)
(***************************************************************************)
\* header values of at most n lexemes, lexemes joined by one of seps
RECURSIVE Values(_, _, _)
Values(lexemes, seps, n) ==
    IF n = 0 THEN {Str("")}
    ELSE LET shorter == Values(lexemes, seps, n - 1) IN
         shorter \cup lexemes
           \cup {v \o sep \o l : v \in shorter \ {Str("")}, sep \in seps, l \in lexemes}

HstsValues ==
    Values({Str("max-age=31536000"), Str("max-age=0"), Str("max-age=\"100\""),
            Str("includeSubDomains"), Str("preload"), Str("max-age=x"),
            Str("max-age=\"5"), Str("max-age =5"),
            Str("max-age=31536000; includeSubDomains")},
           {Str(";"), Str(" ; "), Str(",")}, MaxLexemes)

XfoValues ==
    Values({Str("DENY"), Str("sameorigin"), Str("allow-from https://a.com"),
            Str("foo"), Str(" ")},
           {Str(","), Str(" ")}, MaxLexemes)

\* script directives, inline escapes and broad sources
CspXssValues ==
    Values({Str("script-src"), Str("default-src"), Str("script-src *"),
            Str("script-src 'unsafe-inline'"), Str("'unsafe-inline'"),
            Str("'nonce-abc'"), Str("'sha256-abc='"), Str("'strict-dynamic'"),
            Str("*")},
           {Str(" "), Str(";"), Str(",")}, MaxLexemes)

\* reporting directives
CspReportValues ==
    Values({Str("default-src z"), Str("script-src"), Str("report-to"),
            Str("report-uri"), Str("report-uri /r"), Str("z"),
            Str("script-src report-to.io *")},
           {Str(" "), Str(";")}, MaxLexemes)

CspFaValues ==
    Values({Str("frame-ancestors"), Str("frame-ancestors *"),
            Str("frame-ancestors 'self'"), Str("'none'"), Str("'self'"),
            Str("*"), Str("https://a.com"),
            Str("https://a.com:8080")},
           {Str(" "), Str(";"), Str(",")}, MaxLexemes)

\* TLS directives, in one policy or in several
CspTlsValues ==
    Values({Str("upgrade-insecure-requests"), Str("block-all-mixed-content"),
            Str("Img-Src *")},
           {Str(";"), Str(",")}, MaxLexemes)

PermissionsPolicyValues ==
    Values({Str("geolocation=(self)"), Str("camera=*"), Str("geolocation=()"),
            Str("microphone=(b \"https://a.com\" a)"), Str("usb=(* a)"),
            Str("foo")},
           {Str(","), Str(", ")}, MaxLexemes)

ReferrerPolicyValues ==
    Values({Str("no-referrer"), Str("unsafe-url"), Str("Origin"),
            Str("strict-origin-when-cross-origin"), Str("foo"),
            Str("strict-origin"), Str("unsafe-url, foo")},
           {Str(","), Str(", ")}, MaxLexemes)

CoopValues ==
    Values({Str("same-origin"), Str("same-origin-allow-popups"),
            Str("unsafe-none"), Str("Same-Origin"), Str("foo")},
           {Str(";"), Str(" ; ")}, MaxLexemes)

CorpValues ==
    Values({Str("same-origin"), Str("same-site"), Str("cross-origin"),
            Str("Same-Site"), Str("foo"), Str(" ")},
           {Str(""), Str(";")}, MaxLexemes)

CoepValues ==
    Values({Str("require-corp"), Str("credentialless"), Str("unsafe-none"),
            Str("Require-Corp"), Str("foo")},
           {Str(";"), Str(" ; ")}, MaxLexemes)

\* the raw values of a header
HeaderValues(name) ==
    CASE name = "Strict-Transport-Security" -> HstsValues
      [] name = "X-Frame-Options" -> XfoValues
      [] name = "Content-Security-Policy" ->
            CspXssValues \cup CspReportValues \cup CspFaValues \cup CspTlsValues
      [] name = "Permissions-Policy" -> PermissionsPolicyValues
      [] name = "Referrer-Policy" -> ReferrerPolicyValues
      [] name = "Cross-Origin-Opener-Policy" -> CoopValues
      [] name = "Cross-Origin-Resource-Policy" -> CorpValues
      [] name = "Cross-Origin-Embedder-Policy" -> CoepValues

\* the origin of the response: None, or parse_origin of its URL
Origins ==
    {<<>>, <<Origin(Str("https"), Str("a.com"), <<>>)>>,
     <<Origin(Str("http"), Str("a.com"), <<Str("8080")>>)>>}

\* Headers of a response without any of the headers, or with one of them
InitHeaders ==
    /\ program = "headers"
    /\ pc = "normalize"
    /\ \/ headers = <<>>
       \/ \E name \in HeaderNames : \E value \in HeaderValues(name) :
             headers = (name :> value)
    /\ origin \in Origins
    /\ normalized = <<>>
    /\ classified = <<>>
    /\ i = 0 /\ row = <<>> /\ previous_status = "MISSING"
    /\ previous_snapshot = None /\ result = <<>> /\ events = <<>>
    /\ was_removed = FALSE /\ current_drifts = <<>> /\ drifts = <<>>
    /\ levels = <<>> /\ res = <<>> /\ folded = 0
    /\ submitted = <<>> /\ jobs = <<>> /\ n_partitions = 0
    /\ partition = <<>>
    /\ next_job = 0 /\ table = <<>> /\ outcomes = <<>>
    /\ live_data = <<>> /\ seen_values = {} /\ stable = <<>>
    /\ DEPLOYS = FALSE
    /\ archived_headers = <<>> /\ comparison = {}

\* analyze_quality.py, line 46: aggregation_function = normalize_headers
normalize_headers_call ==
    /\ program = "headers" /\ pc = "normalize"
    /\ normalized' = normalize_headers(headers)
    /\ pc' = "classify"
    /\ UNCHANGED <<program, headers, origin, classified, stability_vars, enum_vars,
                   crawl_vars, live_vars,
                   compare_vars>>

\* analyze_quality.py, line 46: aggregation_function = classify_headers
classify_headers_call ==
    /\ program = "headers" /\ pc = "classify"
    /\ classified' = classify_headers(headers, origin)
    /\ pc' = "done"
    /\ UNCHANGED <<program, headers, origin, normalized, stability_vars, enum_vars,
                   crawl_vars, live_vars,
                   compare_vars>>

NextHeaders ==
    \/ normalize_headers_call
    \/ classify_headers_call

SpecHeaders == InitHeaders /\ [][NextHeaders]_vars

(***************************************************************************)
(* The policy aggregator: max_enum folded over the levels of one           *)
(* enumeration, as the loops of classify_csp_xss, classify_csp_fa and      *)
(* classify_csp_tls fold it over the classifications of the policies.      *)
(***************************************************************************)
\* the ordered Security Level types
SecurityLevels ==
    {HSTSAge, HSTSSub, HSTSPreload, XFO, CspXSS, CspFA, CspTLS, RP, COOP, CORP, COEP}

InitMaxEnum ==
    /\ program = "max_enum"
    /\ pc = "fold"
    /\ \E E \in SecurityLevels : \E n \in 1..MaxLevels :
          levels \in [1..n -> Members(E)]
    /\ res = levels[1]
    /\ folded = 1
    /\ i = 0 /\ row = <<>> /\ previous_status = "MISSING"
    /\ previous_snapshot = None /\ result = <<>> /\ events = <<>>
    /\ was_removed = FALSE /\ current_drifts = <<>> /\ drifts = <<>>
    /\ headers = <<>> /\ origin = <<>> /\ normalized = <<>> /\ classified = <<>>
    /\ submitted = <<>> /\ jobs = <<>> /\ n_partitions = 0
    /\ partition = <<>>
    /\ next_job = 0 /\ table = <<>> /\ outcomes = <<>>
    /\ live_data = <<>> /\ seen_values = {} /\ stable = <<>>
    /\ DEPLOYS = FALSE
    /\ archived_headers = <<>> /\ comparison = {}

\* res = max_enum(res, level), for the next level
max_enum_fold ==
    /\ program = "max_enum" /\ pc = "fold" /\ folded < Len(levels)
    /\ res' = max_enum(res, levels[folded + 1])
    /\ folded' = folded + 1
    /\ UNCHANGED <<program, pc, levels, stability_vars, header_vars,
                   crawl_vars, live_vars,
                   compare_vars>>

\* the loop ends
max_enum_return ==
    /\ program = "max_enum" /\ pc = "fold" /\ folded = Len(levels)
    /\ pc' = "done"
    /\ UNCHANGED <<program, levels, res, folded, stability_vars, header_vars,
                   crawl_vars, live_vars,
                   compare_vars>>

NextMaxEnum ==
    \/ max_enum_fold
    \/ max_enum_return

SpecMaxEnum == InitMaxEnum /\ [][NextMaxEnum]_vars

(***************************************************************************)
(* analysis/live/analyze_disagreement.py, compare_security_headers: the    *)
(* live and the archived Headers of one url.                               *)
(***************************************************************************)
\* lines 36-42: the keys one mechanism adds the url to
mechanism_differences(mechanism, n_live, n_archived, c_live, c_archived) ==
    IF n_archived[mechanism] # n_live[mechanism]
    THEN {"SYNTAX_DIFFERENCE_" \o mechanism, "SYNTAX_DIFFERENCE"}
           \cup (IF c_archived[mechanism] # c_live[mechanism]
                 THEN {"SEMANTICS_DIFFERENCE_" \o mechanism, "SEMANTICS_DIFFERENCE"}
                 ELSE {})
    ELSE {}

\* line 44
different_or_equal(differences) ==
    differences
      \cup {IF "SYNTAX_DIFFERENCE" \in differences THEN "DIFFERENT" ELSE "EQUAL"}

HstsComparedValues ==
    Values({Str("max-age=31536000"), Str("includeSubDomains"), Str("Max-Age=0")},
           {Str(";"), Str(",")}, MaxLexemes)

XfoComparedValues ==
    Values({Str("DENY"), Str("deny"), Str("sameorigin")},
           {Str(","), Str(" ")}, MaxLexemes)

CspComparedValues ==
    Values({Str("script-src *"), Str("default-src 'nonce-abc'"),
            Str("Script-Src 'nonce-xyz'"), Str("frame-ancestors https://a.com")},
           {Str(";"), Str(",")}, MaxLexemes)

PermissionsPolicyComparedValues ==
    Values({Str("camera=*"), Str("usb=(b \"https://a.com\")"), Str("usb=(self b)")},
           {Str(",")}, MaxLexemes)

ReferrerPolicyComparedValues ==
    Values({Str("no-referrer"), Str("No-Referrer"), Str("foo")},
           {Str(","), Str(", ")}, MaxLexemes)

CoopComparedValues ==
    Values({Str("same-origin"), Str("Same-Origin"), Str("<MISSING>")},
           {Str(";"), Str(" ; ")}, MaxLexemes)

CorpComparedValues ==
    Values({Str("same-origin"), Str("<MISSING>"), Str(" ")},
           {Str(""), Str(";")}, MaxLexemes)

CoepComparedValues ==
    Values({Str("require-corp"), Str("credentialless "), Str("<MISSING>")},
           {Str(";"), Str(" ; ")}, MaxLexemes)

\* the values of a header of the two responses
ComparedValues(name) ==
    CASE name = "Strict-Transport-Security" -> HstsComparedValues
      [] name = "X-Frame-Options" -> XfoComparedValues
      [] name = "Content-Security-Policy" -> CspComparedValues
      [] name = "Permissions-Policy" -> PermissionsPolicyComparedValues
      [] name = "Referrer-Policy" -> ReferrerPolicyComparedValues
      [] name = "Cross-Origin-Opener-Policy" -> CoopComparedValues
      [] name = "Cross-Origin-Resource-Policy" -> CorpComparedValues
      [] name = "Cross-Origin-Embedder-Policy" -> CoepComparedValues

\* Headers without the header, or with one value of it
HeadersOf(name) == {<<>>} \cup {name :> value : value \in ComparedValues(name)}

\* the origins of the url: both for the headers whose classifier reads the
\* origin, one for the others
ComparedOrigins(name) ==
    IF name \in {"Content-Security-Policy", "Permissions-Policy"}
    THEN Origins \ {<<>>}
    ELSE {<<Origin(Str("https"), Str("a.com"), <<>>)>>}

\* the live and the archived response of a url; parse_origin(url) is an Origin
InitCompare ==
    /\ program = "compare_security_headers"
    /\ pc = "compare"
    /\ \E name \in HeaderNames :
          /\ headers \in HeadersOf(name)
          /\ archived_headers \in HeadersOf(name)
          /\ origin \in ComparedOrigins(name)
    /\ comparison = {}
    /\ normalized = <<>>
    /\ classified = <<>>
    /\ i = 0 /\ row = <<>> /\ previous_status = "MISSING"
    /\ previous_snapshot = None /\ result = <<>> /\ events = <<>>
    /\ was_removed = FALSE /\ current_drifts = <<>> /\ drifts = <<>>
    /\ levels = <<>> /\ res = <<>> /\ folded = 0
    /\ submitted = <<>> /\ jobs = <<>> /\ n_partitions = 0
    /\ partition = <<>>
    /\ next_job = 0 /\ table = <<>> /\ outcomes = <<>>
    /\ live_data = <<>> /\ seen_values = {} /\ stable = <<>>
    /\ DEPLOYS = FALSE

\* lines 30-34: the four dictionaries
compare_security_headers_prepare ==
    /\ program = "compare_security_headers" /\ pc = "compare"
    /\ normalized' = [live |-> normalize_headers(headers),
                      archived |-> normalize_headers(archived_headers)]
    /\ classified' = [live |-> classify_headers(headers, origin),
                      archived |-> classify_headers(archived_headers, origin)]
    /\ pc' = "mechanisms"
    /\ UNCHANGED <<program, headers, origin, archived_headers, comparison,
                   stability_vars, enum_vars, crawl_vars, live_vars>>

\* lines 36-46: the loop over the mechanisms, and line 44
compare_security_headers_return ==
    /\ program = "compare_security_headers" /\ pc = "mechanisms"
    /\ comparison' =
          different_or_equal(
              UNION {mechanism_differences(mechanism, normalized.live,
                                           normalized.archived, classified.live,
                                           classified.archived) :
                       mechanism \in Keys})
    /\ pc' = "done"
    /\ UNCHANGED <<program, headers, origin, normalized, classified, archived_headers,
                   stability_vars, enum_vars, crawl_vars, live_vars>>

NextCompare ==
    \/ compare_security_headers_prepare
    \/ compare_security_headers_return

SpecCompare == InitCompare /\ [][NextCompare]_vars

(***************************************************************************)
(* data_collection/crawling.py, partition_jobs: the job list is shuffled   *)
(* in place and dealt to the n partitions in turn.                         *)
(***************************************************************************)
\* the jobs; a list may hold a job more than once
Jobs == {"a", "b"}

\* the job lists of at most MaxJobs jobs
JobLists == UNION {[1..len -> Jobs] : len \in 0..MaxJobs}

\* random.shuffle(jobs): the orders the list can be left in
shuffle(list) ==
    {[k \in 1..Len(list) |-> list[f[k]]] :
        f \in {g \in [1..Len(list) -> 1..Len(list)] :
                 \A j, k \in 1..Len(list) : g[j] = g[k] => j = k}}

\* an index that stays at the last partition once it got there
cycle_range_stuck(k, count) == IF k < count THEN k ELSE count - 1

\* line 67: element k (from 0) of cycle(range(n))
cycle_range(k, count) == k % count

\* lines 62-64: partition = [[] for _ in range(n)]
InitPartition ==
    /\ program = "partition_jobs"
    /\ pc = "shuffle"
    /\ submitted \in JobLists
    /\ jobs = submitted
    /\ n_partitions \in 1..MaxPartitions
    /\ partition = [w \in 1..n_partitions |-> <<>>]
    /\ next_job = 0
    /\ table = <<>> /\ outcomes = <<>>
    /\ i = 0 /\ row = <<>> /\ previous_status = "MISSING"
    /\ previous_snapshot = None /\ result = <<>> /\ events = <<>>
    /\ was_removed = FALSE /\ current_drifts = <<>> /\ drifts = <<>>
    /\ headers = <<>> /\ origin = <<>> /\ normalized = <<>> /\ classified = <<>>
    /\ levels = <<>> /\ res = <<>> /\ folded = 0
    /\ live_data = <<>> /\ seen_values = {} /\ stable = <<>>
    /\ DEPLOYS = FALSE
    /\ archived_headers = <<>> /\ comparison = {}

\* line 66: random.shuffle(jobs)
partition_jobs_shuffle ==
    /\ program = "partition_jobs" /\ pc = "shuffle"
    /\ jobs' \in shuffle(jobs)
    /\ pc' = "loop"
    /\ UNCHANGED <<program, submitted, n_partitions, partition, next_job, table,
                   outcomes, stability_vars, header_vars, enum_vars, live_vars,
                   compare_vars>>

\* lines 67-68: partition[i].append(job)
partition_jobs_append ==
    /\ program = "partition_jobs" /\ pc = "loop" /\ next_job < Len(jobs)
    /\ partition' = [partition EXCEPT
                       ![cycle_range(next_job, n_partitions) + 1] =
                           Append(@, jobs[next_job + 1])]
    /\ next_job' = next_job + 1
    /\ UNCHANGED <<program, pc, submitted, jobs, n_partitions, table,
                   outcomes, stability_vars, header_vars, enum_vars, live_vars,
                   compare_vars>>

\* line 70: return partition
partition_jobs_return ==
    /\ program = "partition_jobs" /\ pc = "loop" /\ next_job = Len(jobs)
    /\ pc' = "done"
    /\ UNCHANGED <<program, crawl_vars, stability_vars, header_vars, enum_vars,
                   live_vars,
                   compare_vars>>

NextPartition ==
    \/ partition_jobs_shuffle
    \/ partition_jobs_append
    \/ partition_jobs_return

SpecPartition == InitPartition /\ [][NextPartition]_vars

\* ---------------------------------------------------------------------------
\* analyze_live_headers (analysis/live/analyze_stability.py, lines 35-48) and
\* compute_live_data_stability (analysis/analyze_stability.py, lines 36-53):
\* the stability timeline of one target and one header over the NDays dates of
\* date_range(start, end)

\* the header of RELEVANT_HEADERS the timeline is about
LiveHeader == "X-Frame-Options"

\* the aggregation functions main() passes
AggregationFunctions == {"normalize_headers", "classify_headers"}

aggregation_function(name, hdrs, org) ==
    IF name = "normalize_headers"
    THEN normalize_headers(hdrs)
    ELSE classify_headers(hdrs, org)

\* the Headers of a crawled response with status code 200
LiveHeaders ==
    {<<>>} \cup {LiveHeader :> value :
                    value \in {Str("DENY"), Str("deny"), Str("SAMEORIGIN")}}

\* live_data[tid, date], lines 32-33: no row, or the headers of the row with
\* the aggregated value
LiveHeaderRows(name) ==
    {<<>>} \cup
    {<<[headers |-> hdrs,
        aggregated |->
            aggregation_function(name, hdrs,
                CHOOSE org \in Origins : org # <<>>)[LiveHeader]]>> :
        hdrs \in LiveHeaders}

\* result[tid][header].get(previous_timestamp, True), line 48 (legacy: line
\* 44); flags[k] is the flag of the k-th date
previous_flag_always(flags, date) == TRUE

previous_flag(flags, date) ==
    IF date - 1 \in DOMAIN flags THEN flags[date - 1] ELSE TRUE

InitLiveHeaders ==
    /\ program = "analyze_live_headers"
    /\ pc = "dates"
    /\ \E name \in AggregationFunctions :
          live_data \in [1..NDays -> LiveHeaderRows(name)]
    /\ seen_values = {}
    /\ stable = <<>>
    /\ DEPLOYS = FALSE
    /\ i = 0 /\ row = <<>> /\ previous_status = "MISSING"
    /\ previous_snapshot = None /\ result = <<>> /\ events = <<>>
    /\ was_removed = FALSE /\ current_drifts = <<>> /\ drifts = <<>>
    /\ headers = <<>> /\ origin = <<>> /\ normalized = <<>> /\ classified = <<>>
    /\ levels = <<>> /\ res = <<>> /\ folded = 0
    /\ submitted = <<>> /\ jobs = <<>> /\ n_partitions = 0
    /\ partition = <<>>
    /\ next_job = 0 /\ table = <<>> /\ outcomes = <<>>
    /\ archived_headers = <<>> /\ comparison = {}

\* lines 39-44 (legacy: lines 47-53): the date has a row
analyze_live_headers_observed ==
    /\ program = "analyze_live_headers" /\ pc = "dates"
    /\ Len(stable) < NDays
    /\ live_data[Len(stable) + 1] # <<>>
    /\ seen_values' =
            seen_values \cup {live_data[Len(stable) + 1][1].aggregated}
    /\ stable' = Append(stable, Cardinality(seen_values') = 1)
    /\ DEPLOYS' =
            (DEPLOYS \/ LiveHeader \in DOMAIN live_data[Len(stable) + 1][1].headers)
    /\ UNCHANGED <<program, pc, live_data, stability_vars, header_vars,
                   enum_vars, crawl_vars, compare_vars>>

\* lines 45-48 (legacy: lines 41-45): the date has no row
analyze_live_headers_missing ==
    /\ program = "analyze_live_headers" /\ pc = "dates"
    /\ Len(stable) < NDays
    /\ live_data[Len(stable) + 1] = <<>>
    /\ stable' = Append(stable, previous_flag(stable, Len(stable) + 1))
    /\ UNCHANGED <<program, pc, live_data, seen_values, DEPLOYS,
                   stability_vars, header_vars, enum_vars, crawl_vars,
                   compare_vars>>

\* lines 50-51: the dates are exhausted, the result is dumped
analyze_live_headers_dump ==
    /\ program = "analyze_live_headers" /\ pc = "dates"
    /\ Len(stable) = NDays
    /\ pc' = "done"
    /\ UNCHANGED <<program, live_vars, stability_vars, header_vars, enum_vars,
                   crawl_vars, compare_vars>>

NextLiveHeaders ==
    \/ analyze_live_headers_observed
    \/ analyze_live_headers_missing
    \/ analyze_live_headers_dump

SpecLiveHeaders == InitLiveHeaders /\ [][NextLiveHeaders]_vars

\* ---------------------------------------------------------------------------
\* worker (data_collection/collect_archive_data.py, lines 41-59) and
\* cdx_worker (data_collection/collect_archive_proximity_sets.py, lines
\* 124-140) with crawl (data_collection/crawling.py, lines 136-168)

Workers == {"worker", "cdx_worker"}

\* what session.get meets: a response whose body is JSON, a response whose
\* body is not, a RequestException, or the alarm of timeout(30)
Outcomes == {"JSON", "HTML", "RequestException", "TimeoutError"}

\* the parameters of crawl, lines 136-140
crawl_parameters == {"url", "headers", "user_agent", "proxies", "session"}

\* crawl(url, **keywords): a call with a keyword that is no parameter raises
\* TypeError; lines 151-157 turn RequestException and TimeoutError into
\* CrawlingException; line 168 returns the response
crawl(keywords, outcome) ==
    IF ~(keywords \subseteq crawl_parameters)
    THEN Raised("TypeError")
    ELSE IF outcome \in {"RequestException", "TimeoutError"}
    THEN Raised("CrawlingException")
    ELSE [content |-> outcome]

\* find_candidates, collect_archive_proximity_sets.py lines 86-100: the call
\* of crawl with store_content=False, then response.json()
find_candidates(outcome) ==
    With(crawl({"proxies", "session", "store_content"}, outcome),
         LAMBDA response :
            IF IsRaised(response) THEN response
            ELSE IF response.content # "JSON"
            THEN Raised("CrawlingException")
            ELSE [candidates |-> response.content])

\* the call in the try block of the worker: line 48 of worker, line 131 of
\* cdx_worker
try_crawl(name, outcome) ==
    IF name = "worker"
    THEN crawl({"proxies", "session"}, outcome)
    ELSE find_candidates(outcome)

InitWorker ==
    /\ program \in Workers
    /\ pc = "jobs"
    /\ jobs \in JobLists
    /\ outcomes \in [1..Len(jobs) -> Outcomes]
    /\ next_job = 0
    /\ table = <<>>
    /\ submitted = <<>> /\ n_partitions = 0 /\ partition = <<>>
    /\ i = 0 /\ row = <<>> /\ previous_status = "MISSING"
    /\ previous_snapshot = None /\ result = <<>> /\ events = <<>>
    /\ was_removed = FALSE /\ current_drifts = <<>> /\ drifts = <<>>
    /\ headers = <<>> /\ origin = <<>> /\ normalized = <<>> /\ classified = <<>>
    /\ levels = <<>> /\ res = <<>> /\ folded = 0
    /\ live_data = <<>> /\ seen_values = {} /\ stable = <<>>
    /\ DEPLOYS = FALSE
    /\ archived_headers = <<>> /\ comparison = {}

\* worker lines 48-53, cdx_worker lines 131-135: the call returns and the
\* data row is inserted
worker_insert_data ==
    /\ program \in Workers /\ pc = "jobs" /\ next_job < Len(jobs)
    /\ ~IsRaised(try_crawl(program, outcomes[next_job + 1]))
    /\ table' = Append(table, [job |-> jobs[next_job + 1], kind |-> "data"])
    /\ next_job' = next_job + 1
    /\ UNCHANGED <<program, pc, submitted, jobs, n_partitions, partition,
                   outcomes, stability_vars, header_vars, enum_vars,
                   live_vars, compare_vars>>

\* worker lines 54-59, cdx_worker lines 136-140: the call raises
\* CrawlingException and the error row is inserted
worker_insert_error ==
    /\ program \in Workers /\ pc = "jobs" /\ next_job < Len(jobs)
    /\ try_crawl(program, outcomes[next_job + 1]) = Raised("CrawlingException")
    /\ table' = Append(table, [job |-> jobs[next_job + 1], kind |-> "error"])
    /\ next_job' = next_job + 1
    /\ UNCHANGED <<program, pc, submitted, jobs, n_partitions, partition,
                   outcomes, stability_vars, header_vars, enum_vars,
                   live_vars, compare_vars>>

\* the call raises an exception the except clause does not name: it leaves
\* the loop and the worker
worker_raise ==
    /\ program \in Workers /\ pc = "jobs" /\ next_job < Len(jobs)
    /\ IsRaised(try_crawl(program, outcomes[next_job + 1]))
    /\ try_crawl(program, outcomes[next_job + 1]) # Raised("CrawlingException")
    /\ pc' = "raised"
    /\ next_job' = next_job + 1
    /\ UNCHANGED <<program, submitted, jobs, n_partitions, partition, table,
                   outcomes, stability_vars, header_vars, enum_vars,
                   live_vars, compare_vars>>

\* the job list is exhausted
worker_return ==
    /\ program \in Workers /\ pc = "jobs" /\ next_job = Len(jobs)
    /\ pc' = "done"
    /\ UNCHANGED <<program, crawl_vars, stability_vars, header_vars,
                   enum_vars, live_vars, compare_vars>>

NextWorker ==
    \/ worker_insert_data
    \/ worker_insert_error
    \/ worker_raise
    \/ worker_return

SpecWorker == InitWorker /\ [][NextWorker]_vars

Init ==
    \/ InitStability \/ InitHeaders \/ InitMaxEnum \/ InitPartition
    \/ InitCompare \/ InitLiveHeaders \/ InitWorker
Next ==
    \/ NextStability \/ NextHeaders \/ NextMaxEnum \/ NextPartition
    \/ NextCompare \/ NextLiveHeaders \/ NextWorker
Spec == Init /\ [][Next]_vars

TypeOK ==
    /\ previous_status \in Status
    /\ Len(result) = i

(***************************************************************************)
(* Claims about the snapshot stability timeline.                           *)
(***************************************************************************)
\* the status before day k of the timeline
PrevStatus(k) == IF k = 1 THEN "MISSING" ELSE result[k - 1]

\* the content identity of the latest in-tolerance Hit among the first k days
RECURSIVE LastHitId(_)
LastHitId(k) ==
    IF k = 0 THEN None
    ELSE IF events[k].kind = "Hit" /\ events[k].tol THEN events[k].id
    ELSE LastHitId(k - 1)

\* the NoData column of the transition table
NoDataColumn(prev) ==
    CASE prev \in {"ADDED", "MODIFIED", "UNMODIFIED"} -> "UNMODIFIED"
      [] prev \in {"MISSING", "REMOVED"} -> "MISSING"

\* the Miss404 column of the transition table
Miss404Column(prev) ==
    CASE prev \in {"ADDED", "MODIFIED", "UNMODIFIED"} -> "REMOVED"
      [] prev \in {"MISSING", "REMOVED"} -> "MISSING"

\* C1: a Hit captured more than one day from the requested day gives the
\* status a NoData day gives (ADDED/MODIFIED/UNMODIFIED -> UNMODIFIED,
\* MISSING/REMOVED -> MISSING) and leaves the remembered identity alone.
C1_OutOfToleranceHitIsNoData ==
    [][(i' = i + 1 /\ events'[i'].kind = "Hit" /\ ~events'[i'].tol)
         => /\ previous_status' = NoDataColumn(previous_status)
            /\ previous_snapshot' = previous_snapshot]_vars

\* C2: an in-tolerance Hit gives ADDED after MISSING or REMOVED; after ADDED,
\* MODIFIED or UNMODIFIED it gives MODIFIED when its identity differs from the
\* last Hit's and UNMODIFIED when it is equal; and the five days Hit(A),
\* NoData, Hit(A), Hit(B), Miss404 give ADDED, UNMODIFIED, UNMODIFIED,
\* MODIFIED, REMOVED.
C2_Example ==
    <<Hit("A", TRUE), NoData, Hit("A", TRUE), Hit("B", TRUE), Miss404>>

C2_InToleranceHit ==
    /\ (i >= 1 /\ events[i].kind = "Hit" /\ events[i].tol)
         => result[i] =
              IF PrevStatus(i) \in {"MISSING", "REMOVED"} THEN "ADDED"
              ELSE IF events[i].id # LastHitId(i - 1) THEN "MODIFIED"
              ELSE "UNMODIFIED"
    /\ events = C2_Example
         => result = <<"ADDED", "UNMODIFIED", "UNMODIFIED", "MODIFIED", "REMOVED">>

C2_Witness ==
    /\ events = C2_Example
    /\ result[4] = "MODIFIED"

\* C3, as stated: every observation with HTTP status 404 gives REMOVED after
\* ADDED, MODIFIED or UNMODIFIED and MISSING after MISSING or REMOVED.
C3_Status404Observation ==
    (i >= 1 /\ row # <<>> /\ row[1].status_code = 404)
        => result[i] = Miss404Column(PrevStatus(i))

\* C3, amended: a Miss404 event (live: a row without Memento-Datetime, which
\* the query admits only with status 404; legacy: a 404 row captured within
\* one day of DATE) gives REMOVED after ADDED, MODIFIED or UNMODIFIED and
\* MISSING after MISSING or REMOVED, never ADDED, MODIFIED or UNMODIFIED.
C3_Miss404 ==
    (i >= 1 /\ events[i] = Miss404)
        => /\ result[i] = Miss404Column(PrevStatus(i))
           /\ result[i] \notin {"ADDED", "MODIFIED", "UNMODIFIED"}

C3_Witness ==
    /\ i >= 2
    /\ events[i] = Miss404
    /\ result[i - 1] = "UNMODIFIED"
    /\ result[i] = "REMOVED"

\* C4: a NoData day maps ADDED and MODIFIED to UNMODIFIED, REMOVED to MISSING
\* and keeps MISSING and UNMODIFIED; a resource observed as NoData on every
\* day is MISSING on every day.
C4_NoData ==
    /\ (i >= 1 /\ events[i] = NoData)
         => result[i] =
              CASE PrevStatus(i) \in {"ADDED", "MODIFIED"} -> "UNMODIFIED"
                [] PrevStatus(i) = "REMOVED" -> "MISSING"
                [] PrevStatus(i) \in {"MISSING", "UNMODIFIED"} -> PrevStatus(i)
    /\ (\A k \in 1..i : events[k] = NoData)
         => \A k \in 1..i : result[k] = "MISSING"

C4_Witness ==
    /\ i = NDays
    /\ events[i] = NoData
    /\ result[i - 1] = "REMOVED"
    /\ result[i] = "MISSING"

(***************************************************************************)
(* The header engine, checked under SpecHeaders. value_of(key) is the raw  *)
(* value the classifier of a key receives: '' for an absent header.        *)
(***************************************************************************)
value_of(key) == headers_get(headers, header_of(key))

Present(key) == header_of(key) \in DOMAIN headers

\* classify_headers has returned a dictionary
Classified == pc = "done" /\ ~IsRaised(classified)

\* a 'nonce-...' token, a 'sha256-/sha384-/sha512-...' token or
\* 'strict-dynamic'
trusted_escape(token) ==
    \/ token = Str("'strict-dynamic'")
    \/ value_token_match(token, 1, Str("'nonce-")) = Len(token)
    \/ sha_match(token, 1) = Len(token)

broad_sources ==
    {Str("*"), Str("http:"), Str("http://"), Str("http://*"), Str("https:"),
     Str("https://"), Str("https://*"), Str("data:")}

\* the effective script directive of a policy (script-src, else default-src)
\* holds 'unsafe-inline', a trusted escape and no broad source
escaped_inline(policy) ==
    LET directive == csp_get(policy, Str("script-src"),
                             csp_get(policy, Str("default-src"), <<>>))
    IN  /\ directive # <<>>
        /\ Str("'unsafe-inline'") \in directive[1]
        /\ \E token \in directive[1] : trusted_escape(token)
        /\ directive[1] \cap broad_sources = {}

\* C5: a Content-Security-Policy value with a policy whose effective script
\* directive holds 'unsafe-inline' together with a trusted escape token and
\* no broad source is classified SAFE by classify_csp_xss.
C5_TrustedEscapeIsSafe ==
    (Classified /\ Present("Content-Security-Policy"))
        => LET policies == parse_csp(lower(value_of("Content-Security-Policy")))
           IN  (\E k \in 1..Len(policies) : escaped_inline(policies[k]))
                 => classified["Content-Security-Policy::XSS"] = CspXSS.SAFE

\* the directives from directive d on whose name, without case, is not in
\* seen and is not the name of an earlier one of them
RECURSIVE first_occurrences(_, _, _)
first_occurrences(directives, d, seen) ==
    IF d > Len(directives) THEN <<>>
    ELSE LET tokens == split_ws(strip(directives[d])) IN
         IF tokens = <<>> THEN first_occurrences(directives, d + 1, seen)
         ELSE IF lower(tokens[1]) \in seen
         THEN first_occurrences(directives, d + 1, seen)
         ELSE <<directives[d]>>
                \o first_occurrences(directives, d + 1, seen \cup {lower(tokens[1])})

\* a raw Content-Security-Policy value without the later occurrences of the
\* directive names of each policy
keep_first(value) ==
    LET policies == split(value, Ord[","]) IN
    join(Str(","), [k \in 1..Len(policies) |->
                      join(Str(";"), first_occurrences(split(policies[k], Ord[";"]),
                                                       1, {}))])

\* two classifications, or two raised exceptions, are the same
same_outcome(a, b) ==
    IF IsRaised(a) \/ IsRaised(b) THEN IsRaised(a) /\ IsRaised(b) ELSE a = b

\* C6: the XSS, framing and TLS classifications of a Content-Security-Policy
\* value are those of the value with only the first occurrence of every
\* directive name of each raw policy: later occurrences are ignored.
C6_FirstOccurrenceWins ==
    (Classified /\ Present("Content-Security-Policy"))
        => LET first == keep_first(value_of("Content-Security-Policy")) IN
           /\ classified["Content-Security-Policy::XSS"] = classify_csp_xss(first)
           /\ classified["Content-Security-Policy::TLS"] = classify_csp_tls(first)
           /\ same_outcome(classified["Content-Security-Policy::FA"],
                           classify_csp_fa(first, origin))

\* normalize_headers has returned
Normalized == pc \in {"classify", "done"}

\* C7, as stated: for every mechanism and every raw value X, normalize(X)
\* equals normalize(uppercase(X)).
C7_CaseInsensitive ==
    Normalized
        => \A key \in Keys :
              Present(key) => normalized[key] = normalize(key, upper(value_of(key)))

\* the keys whose normalizer keeps the case of the value
CaseKeepingKeys ==
    {"Cross-Origin-Opener-Policy", "Cross-Origin-Resource-Policy",
     "Cross-Origin-Embedder-Policy"}

\* C7, amended: for HSTS, X-Frame-Options, CSP (all four keys),
\* Permissions-Policy and Referrer-Policy, normalize(X) equals
\* normalize(uppercase(X)); the normalizers of COOP, CORP and COEP keep the
\* case: normalize(uppercase(X)) equals uppercase(normalize(X)).
C7_CaseFolding ==
    Normalized
        => \A key \in Keys :
              Present(key)
                => IF key \in CaseKeepingKeys
                   THEN normalize(key, upper(value_of(key))) = upper(normalized[key])
                   ELSE normalize(key, upper(value_of(key))) = normalized[key]

C7_Witness ==
    /\ pc = "classify"
    /\ headers = ("Content-Security-Policy" :> Str("script-src 'nonce-abc'"))
    /\ normalized["Content-Security-Policy"] = Str("script-src 'nonce-value'")
    /\ normalize_csp(Str("SCRIPT-SRC 'NONCE-ABC'"), <<>>)
         = normalized["Content-Security-Policy"]

\* C8: for every mechanism and every raw value X, normalize(normalize(X))
\* equals normalize(X).
C8_Idempotent ==
    Normalized
        => \A key \in Keys :
              Present(key) => normalize(key, normalized[key]) = normalized[key]

\* C9: classify_headers returns a classification without raising, for every
\* Headers value and also without an Origin.
C9_NeverRaises == pc = "done" => ~IsRaised(classified)

\* the tokens of a value, split at commas, semicolons and whitespace
tokens_of(value) ==
    split_ws([k \in 1..Len(value) |->
                IF value[k] \in {Ord[","], Ord[";"]} THEN Ord[" "] ELSE value[k]])

\* the tokens a classifier recognizes
Vocabulary(key) ==
    CASE key = "X-Frame-Options" -> {Str("deny"), Str("sameorigin")}
      [] key = "Content-Security-Policy::XSS" -> {Str("script-src"), Str("default-src")}
      [] key = "Content-Security-Policy::FA" -> {Str("frame-ancestors")}
      [] key = "Content-Security-Policy::TLS" ->
            {Str("block-all-mixed-content"), Str("upgrade-insecure-requests")}
      [] key = "Referrer-Policy" -> REFERRER_POLICY_VALUES
      [] key = "Cross-Origin-Opener-Policy" ->
            {Str("same-origin"), Str("same-origin-allow-popups")}
      [] key = "Cross-Origin-Resource-Policy" -> {Str("same-origin"), Str("same-site")}
      [] key = "Cross-Origin-Embedder-Policy" -> {Str("require-corp"), Str("credentialless")}

\* the enumeration of the classifications of a key
EnumOf(key) ==
    CASE key = "X-Frame-Options" -> XFO
      [] key = "Content-Security-Policy::XSS" -> CspXSS
      [] key = "Content-Security-Policy::FA" -> CspFA
      [] key = "Content-Security-Policy::TLS" -> CspTLS
      [] key = "Referrer-Policy" -> RP
      [] key = "Cross-Origin-Opener-Policy" -> COOP
      [] key = "Cross-Origin-Resource-Policy" -> CORP
      [] key = "Cross-Origin-Embedder-Policy" -> COEP

\* the lowest-ranked and the highest-ranked member of an enumeration
Lowest(E) == CHOOSE m \in Members(E) : \A n \in Members(E) : m.value <= n.value

Highest(E) == CHOOSE m \in Members(E) : \A n \in Members(E) : m.value >= n.value

\* the value is empty or holds no token the classifier of the key
\* recognizes; the tokens are compared without case where the classifier
\* folds the case
Unrecognized(key, value) ==
    Range(tokens_of(IF key \in CaseKeepingKeys THEN value ELSE lower(value)))
        \cap Vocabulary(key) = {}

\* C10, as stated: for X-Frame-Options, CSP (XSS, framing, TLS),
\* Referrer-Policy, COOP, CORP and COEP, a value that is empty or holds no
\* recognized token is classified as the lowest-ranked level.
C10_UnrecognizedIsLowest ==
    Classified
        => \A key \in {"X-Frame-Options", "Content-Security-Policy::XSS",
                      "Content-Security-Policy::FA", "Content-Security-Policy::TLS",
                      "Referrer-Policy", "Cross-Origin-Opener-Policy",
                      "Cross-Origin-Resource-Policy", "Cross-Origin-Embedder-Policy"} :
              Unrecognized(key, value_of(key))
                => classified[key] = Lowest(EnumOf(key))

\* C10, amended: for X-Frame-Options, CSP (XSS, framing, TLS), COOP, CORP and
\* COEP, a value that is empty or holds no recognized token is classified as
\* the lowest-ranked level; for Referrer-Policy it is classified as
\* STRICT_ORIGIN_WHEN_CROSS_ORIGIN, the highest-ranked level.
C10_UnrecognizedIsDefault ==
    Classified
        => /\ \A key \in {"X-Frame-Options", "Content-Security-Policy::XSS",
                          "Content-Security-Policy::FA", "Content-Security-Policy::TLS",
                          "Cross-Origin-Opener-Policy", "Cross-Origin-Resource-Policy",
                          "Cross-Origin-Embedder-Policy"} :
                 Unrecognized(key, value_of(key))
                   => classified[key] = Lowest(EnumOf(key))
           /\ Unrecognized("Referrer-Policy", value_of("Referrer-Policy"))
                => /\ classified["Referrer-Policy"] = RP.STRICT_ORIGIN_WHEN_CROSS_ORIGIN
                   /\ classified["Referrer-Policy"] = Highest(RP)

C10_Witness ==
    /\ pc = "done"
    /\ headers = ("Referrer-Policy" :> Str("foo, foo"))
    /\ classified["Referrer-Policy"] = RP.STRICT_ORIGIN_WHEN_CROSS_ORIGIN
    /\ classified["X-Frame-Options"] = XFO.UNSAFE
    /\ classified["Cross-Origin-Opener-Policy"] = COOP.UNSAFE_NONE

\* the tokens classify_hsts reads: the first instance of the header, in lower
\* case, split at semicolons and trimmed
hsts_directives(value) == strip_all(split(split(lower(value), Ord[","])[1], Ord[";"]))

\* the name of a token: its text before the first "="
hsts_name(token) == split(token, Ord["="])[1]

\* a directive name occurs twice
hsts_repeated(value) ==
    LET tokens == hsts_directives(value) IN
    \E j, k \in 1..Len(tokens) : j < k /\ hsts_name(tokens[j]) = hsts_name(tokens[k])

\* max-age="?<digits>"? : each quote on its own
matches_loose_max_age(token) ==
    LET rest == SubSeq(token, 9, Len(token))
        body == IF rest # <<>> /\ rest[1] = Ord["\""] THEN Tail(rest) ELSE rest
        n == digits_end(body)
    IN  /\ Len(token) >= 8 /\ SubSeq(token, 1, 8) = Str("max-age=")
        /\ n >= 1
        /\ SubSeq(body, n + 1, Len(body)) \in {Str(""), Str("\"")}

\* C11, as stated: with a repeated directive name, or a max-age directive that
\* does not match max-age="?<digits>"?, classify_hsts returns the lowest-ranked
\* level of each of HSTSAge, HSTSSub and HSTSPreload.
C11_InvalidIsLowest ==
    (Classified /\ Present("Strict-Transport-Security"))
        => LET tokens == hsts_directives(value_of("Strict-Transport-Security")) IN
           (\/ hsts_repeated(value_of("Strict-Transport-Security"))
            \/ \E k \in 1..Len(tokens) :
                  /\ hsts_name(tokens[k]) = Str("max-age")
                  /\ ~matches_loose_max_age(tokens[k]))
             => classified["Strict-Transport-Security"]
                  = <<Lowest(HSTSAge), Lowest(HSTSSub), Lowest(HSTSPreload)>>

\* C11, amended: when the text before the first "=" of two of the tokens is
\* the same, or a token whose text before the first "=" is max-age does not
\* match max-age=("?)<digits>\1 (the quotes on both sides or on neither),
\* classify_hsts returns (ABSENT, ABSENT, ABSENT), the triple of an absent
\* header, whatever the other tokens are; HSTSAge.ABSENT is not the
\* lowest-ranked HSTSAge, which is DISABLED.
C11_InvalidIsAbsent ==
    (Classified /\ Present("Strict-Transport-Security"))
        => LET tokens == hsts_directives(value_of("Strict-Transport-Security")) IN
           (\/ hsts_repeated(value_of("Strict-Transport-Security"))
            \/ \E k \in 1..Len(tokens) :
                  /\ hsts_name(tokens[k]) = Str("max-age")
                  /\ max_age_match(tokens[k]) = <<>>)
             => /\ classified["Strict-Transport-Security"]
                     = <<HSTSAge.ABSENT, HSTSSub.ABSENT, HSTSPreload.ABSENT>>
                /\ classified["Strict-Transport-Security"]
                     = classify_hsts(Str(""))
                /\ HSTSAge.ABSENT # Lowest(HSTSAge)

C11_Witness ==
    /\ pc = "done"
    /\ headers = ("Strict-Transport-Security"
                    :> Str("max-age=31536000; includeSubDomains;max-age=0"))
    /\ classified["Strict-Transport-Security"]
         = <<HSTSAge.ABSENT, HSTSSub.ABSENT, HSTSPreload.ABSENT>>

\* the header is well formed: no directive name occurs twice and every
\* max-age directive matches
hsts_well_formed(value) ==
    /\ ~hsts_repeated(value)
    /\ \A k \in 1..Len(hsts_directives(value)) :
          hsts_name(hsts_directives(value)[k]) = Str("max-age")
            => max_age_match(hsts_directives(value)[k]) # <<>>

\* the max-age values of the first instance of the header
hsts_max_ages(value) ==
    {int(max_age_match(hsts_directives(value)[k])[1]) :
        k \in {j \in 1..Len(hsts_directives(value)) :
                  hsts_name(hsts_directives(value)[j]) = Str("max-age")}}

\* C12: for a well-formed HSTS header, Age is ABSENT without a max-age
\* directive, DISABLED when max-age is 0, LOW when 0 < max-age < 31536000 and
\* BIG when max-age >= 31536000; only the first comma-separated instance of
\* the header contributes.
C12_Age ==
    (Classified /\ Present("Strict-Transport-Security")
       /\ hsts_well_formed(value_of("Strict-Transport-Security")))
        => LET ages == hsts_max_ages(value_of("Strict-Transport-Security"))
               Age == classified["Strict-Transport-Security"][1]
           IN  /\ ages = {} => Age = HSTSAge.ABSENT
               /\ \A n \in ages :
                     /\ n = 0 => Age = HSTSAge.DISABLED
                     /\ (0 < n /\ n < 31536000) => Age = HSTSAge.LOW
                     /\ n >= 31536000 => Age = HSTSAge.BIG
               /\ classified["Strict-Transport-Security"]
                    = classify_hsts(split(value_of("Strict-Transport-Security"),
                                          Ord[","])[1])

C12_Witness ==
    /\ pc = "done"
    /\ headers = ("Strict-Transport-Security" :> Str("max-age=0,max-age=31536000"))
    /\ classified["Strict-Transport-Security"][1] = HSTSAge.DISABLED

\* a directive of the given name is present in the first instance of the
\* header
hsts_has(value, name) ==
    \E k \in 1..Len(hsts_directives(value)) :
        hsts_name(hsts_directives(value)[k]) = name

\* C13: in every triple returned by classify_hsts, Sub is ACTIVE exactly when
\* includeSubDomains is present and Age is LOW or BIG, and Preload is ACTIVE
\* exactly when preload is present, Sub is ACTIVE and Age is BIG; so Preload
\* ACTIVE implies Sub ACTIVE and Age BIG, and Sub ACTIVE implies Age neither
\* ABSENT nor DISABLED.
C13_SubAndPreload ==
    Classified
        => LET value == value_of("Strict-Transport-Security")
               Age == classified["Strict-Transport-Security"][1]
               Sub == classified["Strict-Transport-Security"][2]
               Preload == classified["Strict-Transport-Security"][3]
           IN  /\ Sub \in Members(HSTSSub) /\ Preload \in Members(HSTSPreload)
               /\ Sub = HSTSSub.ACTIVE
                    <=> (hsts_has(value, Str("includesubdomains"))
                         /\ Age \in {HSTSAge.LOW, HSTSAge.BIG})
               /\ Preload = HSTSPreload.ACTIVE
                    <=> (hsts_has(value, Str("preload"))
                         /\ Sub = HSTSSub.ACTIVE /\ Age = HSTSAge.BIG)
               /\ Preload = HSTSPreload.ACTIVE
                    => (Sub = HSTSSub.ACTIVE /\ Age = HSTSAge.BIG)
               /\ Sub = HSTSSub.ACTIVE
                    => Age \notin {HSTSAge.ABSENT, HSTSAge.DISABLED}

C13_Witness ==
    /\ pc = "done"
    /\ headers = ("Strict-Transport-Security"
                    :> Str("max-age=31536000; includeSubDomains;preload"))
    /\ classified["Strict-Transport-Security"]
         = <<HSTSAge.BIG, HSTSSub.ACTIVE, HSTSPreload.ACTIVE>>

\* the names, in lower case, of the directives from directive d on
RECURSIVE directive_names(_, _)
directive_names(directives, d) ==
    IF d > Len(directives) THEN <<>>
    ELSE LET tokens == split_ws(strip(directives[d])) IN
         (IF tokens = <<>> THEN <<>> ELSE <<lower(tokens[1])>>)
           \o directive_names(directives, d + 1)

\* a directive name occurs twice in a policy of the value
csp_repeated(value) ==
    \E policy \in Range(split(value, Ord[","])) :
        LET names == directive_names(split(policy, Ord[";"]), 1) IN
        \E j, k \in 1..Len(names) : j < k /\ names[j] = names[k]

\* the policies of a parsed value without their report-uri and report-to
\* directives
without_reports(policies) ==
    {[name \in DOMAIN policy \ {Str("report-uri"), Str("report-to")} |-> policy[name]] :
        policy \in Range(policies)}

\* C14: the report redaction of normalize_csp changes only the argument of a
\* directive named report-uri or report-to: every other directive has, in the
\* normalized value the classifiers parse, the lowercased set of its raw
\* source tokens, up to the redaction of nonces and hashes.
C14_ReportRedactionFrame ==
    (Normalized /\ Present("Content-Security-Policy")
       /\ ~csp_repeated(value_of("Content-Security-Policy")))
        => without_reports(parse_csp(normalized["Content-Security-Policy"]))
             = without_reports(parse_csp(lower(sub_sha(sub_nonce(
                                  value_of("Content-Security-Policy"))))))

\* s with every occurrence of old replaced by new
RECURSIVE replace(_, _, _)
replace(s, old, new) ==
    LET at == {p \in 1..(Len(s) - Len(old) + 1) :
                  SubSeq(s, p, p + Len(old) - 1) = old}
    IN  IF at = {} THEN s
        ELSE SubSeq(s, 1, SetMin(at) - 1) \o new
               \o replace(SubSeq(s, SetMin(at) + Len(old), Len(s)), old, new)

\* the value with other nonce and hash values
other_values(value) ==
    replace(replace(value, Str("'nonce-abc'"), Str("'nonce-Xy_9+/-Q=='")),
            Str("'sha256-abc='"), Str("'sha256-Q-_z/+09'"))

\* the value with other arguments of its report-uri directives
other_reports(value) ==
    replace(replace(value, Str("report-uri /r"), Str("report-uri https://q/r?x=1 /s")),
            Str("report-to z"), Str("report-to endpoint-1"))

\* C15: two Content-Security-Policy values that differ only in the values of
\* their nonce and hash tokens, or only in the arguments of their report
\* directives, have the same normalize_csp result.
C15_RedactionEquates ==
    (Normalized /\ Present("Content-Security-Policy"))
        => \A key \in {k \in Keys : header_of(k) = "Content-Security-Policy"} :
              /\ normalize(key, other_values(value_of(key))) = normalized[key]
              /\ normalize(key, other_reports(value_of(key))) = normalized[key]

C15_Witness ==
    /\ pc = "classify"
    /\ headers = ("Content-Security-Policy" :> Str("script-src 'nonce-abc'"))
    /\ other_values(value_of("Content-Security-Policy"))
         = Str("script-src 'nonce-Xy_9+/-Q=='")
    /\ normalized["Content-Security-Policy"] = Str("script-src 'nonce-value'")
    /\ normalize_csp(Str("script-src 'nonce-Xy_9+/-Q=='"), <<>>)
         = Str("script-src 'nonce-value'")

\* the value is one policy
SinglePolicy(value) == \A k \in 1..Len(value) : value[k] # Ord[","]

\* the policy the classifiers see of a value that is one policy
seen_policy(value) == parse_csp(normalize_csp(value, <<>>))[1]

\* 'unsafe-inline' is among the tokens and is_unsafe_inline_active finds none
\* of the expressions that switch it off
active_unsafe_inline(tokens) ==
    /\ Str("'unsafe-inline'") \in tokens
    /\ \A e \in {Str("'nonce-VALUE'"), Str("'sha256-VALUE'"), Str("'sha384-VALUE'"),
                 Str("'sha512-VALUE'"), Str("'strict-dynamic'")} : e \notin tokens

host_port(o) == IF o.port = <<>> THEN o.host ELSE o.host \o Str(":") \o o.port[1]

\* the seven self-referential forms of an origin
self_forms(o) ==
    {Str("'self'"),
     o.protocol \o Str("://") \o host_port(o),
     o.protocol \o Str("://") \o host_port(o) \o Str("/"),
     Str("https://") \o host_port(o),
     Str("https://") \o host_port(o) \o Str("/"),
     host_port(o),
     host_port(o) \o Str("/")}

\* C17: for a single policy and an Origin, framing control is UNSAFE without
\* frame-ancestors, NONE when its token set is empty or {'none'}, SELF when
\* every token is one of the seven self forms of the Origin, UNSAFE when the
\* tokens are not all self forms and one of *, http:, http://, http://*,
\* https:, https://, https://* is present, and CONSTRAINED otherwise.
C17_FramingControl ==
    (Classified /\ origin # <<>> /\ SinglePolicy(value_of("Content-Security-Policy")))
        => LET policy == seen_policy(value_of("Content-Security-Policy"))
               FA == classified["Content-Security-Policy::FA"]
               tokens == policy[Str("frame-ancestors")]
           IN  IF Str("frame-ancestors") \notin DOMAIN policy THEN FA = CspFA.UNSAFE
               ELSE IF tokens = {} \/ tokens = {Str("'none'")} THEN FA = CspFA.NONE
               ELSE IF tokens \subseteq self_forms(origin[1]) THEN FA = CspFA.SELF
               ELSE IF tokens \cap (broad_sources \ {Str("data:")}) # {}
               THEN FA = CspFA.UNSAFE
               ELSE FA = CspFA.CONSTRAINED

C17_Witness ==
    /\ pc = "done"
    /\ origin = <<Origin(Str("http"), Str("a.com"), <<Str("8080")>>)>>
    /\ headers = ("Content-Security-Policy"
                    :> Str("frame-ancestors 'self' https://a.com:8080"))
    /\ classified["Content-Security-Policy::FA"] = CspFA.SELF

\* C18: for a single policy, TLS enforcement is BLOCK_ALL_MIXED_CONTENT
\* whenever block-all-mixed-content is present, also next to
\* upgrade-insecure-requests, UPGRADE_INSECURE_REQUESTS when only
\* upgrade-insecure-requests is present, and UNSAFE when neither is.
C18_TlsEnforcement ==
    (Classified /\ SinglePolicy(value_of("Content-Security-Policy")))
        => LET names == DOMAIN seen_policy(value_of("Content-Security-Policy"))
               TLS == classified["Content-Security-Policy::TLS"]
           IN  /\ Str("block-all-mixed-content") \in names
                    => TLS = CspTLS.BLOCK_ALL_MIXED_CONTENT
               /\ (Str("upgrade-insecure-requests") \in names
                     /\ Str("block-all-mixed-content") \notin names)
                    => TLS = CspTLS.UPGRADE_INSECURE_REQUESTS
               /\ (Str("upgrade-insecure-requests") \notin names
                     /\ Str("block-all-mixed-content") \notin names)
                    => TLS = CspTLS.UNSAFE

C18_Witness ==
    /\ pc = "done"
    /\ headers = ("Content-Security-Policy"
                    :> Str("upgrade-insecure-requests;block-all-mixed-content"))
    /\ classified["Content-Security-Policy::TLS"] = CspTLS.BLOCK_ALL_MIXED_CONTENT

\* a use-case of a Content-Security-Policy value
csp_use_case(u, value) ==
    CASE u = "XSS" -> classify_csp_xss(value)
      [] u = "FA" -> classify_csp_fa(value, origin)
      [] u = "TLS" -> classify_csp_tls(value)

\* the policies of a value in the opposite order
reversed_policies(value) ==
    LET policies == split(value, Ord[","]) IN
    join(Str(","), [k \in 1..Len(policies) |-> policies[Len(policies) + 1 - k]])

\* policies to append, by use-case
FurtherPolicies(u) ==
    CASE u = "XSS" -> {Str(""), Str("script-src"), Str("script-src *")}
      [] u = "FA" -> {Str(""), Str("frame-ancestors 'none'"), Str("frame-ancestors *")}
      [] u = "TLS" -> {Str(""), Str("upgrade-insecure-requests"),
                       Str("block-all-mixed-content")}

\* C19: for each of the three use-cases, the classification of a header of
\* several comma-separated policies is the highest-ranked of the
\* classifications of its policies; it does not depend on the order of the
\* policies, and appending a further policy never lowers it.
C19_HighestPolicy ==
    (Classified /\ Present("Content-Security-Policy"))
        => \A u \in {"XSS", "FA", "TLS"} :
              LET value == value_of("Content-Security-Policy")
                  policies == split(value, Ord[","])
                  whole == classified["Content-Security-Policy::" \o u]
                  each == [k \in 1..Len(policies) |-> csp_use_case(u, policies[k])]
              IN  /\ \E k \in 1..Len(policies) : each[k] = whole
                  /\ \A k \in 1..Len(policies) : each[k].value <= whole.value
                  /\ Len(policies) > 1
                       => csp_use_case(u, reversed_policies(value)) = whole
                  /\ \A further \in FurtherPolicies(u) :
                        origin # <<>> \/ u # "FA" \/ further # Str("frame-ancestors *")
                          => csp_use_case(u, value \o Str(",") \o further).value
                               >= whole.value

C19_Witness ==
    /\ pc = "done"
    /\ headers = ("Content-Security-Policy"
                    :> Str("upgrade-insecure-requests,block-all-mixed-content"))
    /\ classify_csp_tls(Str("block-all-mixed-content")) = CspTLS.BLOCK_ALL_MIXED_CONTENT
    /\ classified["Content-Security-Policy::TLS"] = CspTLS.UPGRADE_INSECURE_REQUESTS

(***************************************************************************)
(* The policy aggregator, checked under SpecMaxEnum.                       *)
(***************************************************************************)
\* the enumeration of a level
TypeOf(level) == CHOOSE E \in SecurityLevels : level \in Members(E)

\* max_enum folded over a sequence of levels, from the left
RECURSIVE fold_max_enum(_)
fold_max_enum(seq) ==
    IF Len(seq) = 1 THEN seq[1]
    ELSE max_enum(fold_max_enum(SubSeq(seq, 1, Len(seq) - 1)), seq[Len(seq)])

\* the permutations of the indexes of a sequence
Permutations_of(n) == {f \in [1..n -> 1..n] : \A j, k \in 1..n : f[j] = f[k] => j = k}

\* C20: for every ordered Security Level type and all its values a, b, c,
\* max_enum(a, b) is the value of larger rank, max_enum(a, b) = max_enum(b, a)
\* and max_enum(max_enum(a, b), c) = max_enum(a, max_enum(b, c)); folding
\* max_enum over a sequence gives the same result for every permutation of it.
C20_MaxEnum ==
    program = "max_enum"
        => /\ \A a, b \in Members(TypeOf(levels[1])) :
                 /\ max_enum(a, b) \in {a, b}
                 /\ max_enum(a, b).value >= a.value /\ max_enum(a, b).value >= b.value
                 /\ max_enum(a, b) = max_enum(b, a)
                 /\ \A c \in Members(TypeOf(levels[1])) :
                       max_enum(max_enum(a, b), c) = max_enum(a, max_enum(b, c))
           /\ res = fold_max_enum(SubSeq(levels, 1, folded))
           /\ pc = "done"
                => /\ \A k \in 1..Len(levels) : levels[k].value <= res.value
                   /\ \A f \in Permutations_of(Len(levels)) :
                         fold_max_enum([k \in 1..Len(levels) |-> levels[f[k]]]) = res

C20_Witness ==
    /\ program = "max_enum" /\ pc = "done"
    /\ levels = <<HSTSAge.LOW, HSTSAge.BIG, HSTSAge.DISABLED>>
    /\ res = HSTSAge.BIG

(***************************************************************************)
(* Referrer-Policy and X-Frame-Options.                                    *)
(***************************************************************************)
\* the tokens of the comma-separated lowercased list of a Referrer-Policy
\* value, each without the whitespace around it
referrer_tokens(value) ==
    LET tokens == split(lower(value), Ord[","])
    IN  [k \in 1..Len(tokens) |-> strip(tokens[k])]

\* the recognized tokens of a list, in their order
recognized_tokens(tokens) == SelectSeq(tokens, LAMBDA t : t \in REFERRER_POLICY_VALUES)

\* the level a recognized token names: UNSAFE_URL for unsafe-url, ...
referrer_level(token) ==
    CHOOSE m \in Members(RP) :
        token = lower([k \in 1..Len(m.name) |->
                         IF Str(m.name)[k] = Ord["_"] THEN Ord["-"] ELSE Str(m.name)[k]])

\* C21: classify_referrer_policy returns the level of the last recognized
\* token, in header order, of the comma-separated lowercased list; the
\* unrecognized tokens do not change the result; without a recognized token
\* the result is STRICT_ORIGIN_WHEN_CROSS_ORIGIN.
C21_LastRecognizedToken ==
    Classified
        => LET recognized == recognized_tokens(referrer_tokens(value_of("Referrer-Policy")))
           IN  /\ classified["Referrer-Policy"]
                    = IF recognized = <<>> THEN RP.STRICT_ORIGIN_WHEN_CROSS_ORIGIN
                      ELSE referrer_level(recognized[Len(recognized)])
               /\ classify_referrer_policy(join(Str(","), recognized))
                    = classified["Referrer-Policy"]

C21_Witness ==
    /\ Classified
    /\ value_of("Referrer-Policy") = Str("unsafe-url, foo,strict-origin")
    /\ classified["Referrer-Policy"] = RP.STRICT_ORIGIN

\* the value is the single token: it holds no comma and is the token, without
\* case, once the whitespace around it is taken away
single_token(value, token) ==
    /\ Ord[","] \notin Range(value)
    /\ strip(lower(value)) = token

\* an ALLOW-FROM value
allow_from(value) ==
    LET text == strip(lower(value))
    IN  Len(text) >= 10 /\ SubSeq(text, 1, 10) = Str("allow-from")

\* C22: classify_xfo returns DENY exactly when the normalized value is the
\* single token deny, SAMEORIGIN exactly when it is the single token
\* sameorigin, and UNSAFE for every other value, ALLOW-FROM values and values
\* of more than one comma-separated token included.
C22_ExactMatch ==
    Classified
        => LET value == value_of("X-Frame-Options")
               level == classified["X-Frame-Options"]
           IN  /\ level = XFO.DENY <=> single_token(value, Str("deny"))
               /\ level = XFO.DENY <=> normalize_xfo(value) = Str("deny")
               /\ level = XFO.SAMEORIGIN <=> single_token(value, Str("sameorigin"))
               /\ level = XFO.SAMEORIGIN <=> normalize_xfo(value) = Str("sameorigin")
               /\ level \in {XFO.DENY, XFO.SAMEORIGIN, XFO.UNSAFE}
               /\ Len(split(value, Ord[","])) > 1 => level = XFO.UNSAFE
               /\ allow_from(value) => level = XFO.UNSAFE

C22_Witness ==
    /\ Classified
    /\ \/ value_of("X-Frame-Options") = Str("DENY,sameorigin")
       \/ value_of("X-Frame-Options") = Str("allow-from https://a.com")
    /\ classified["X-Frame-Options"] = XFO.UNSAFE

(***************************************************************************)
(* Further claims about the snapshot stability timeline, checked under     *)
(* SpecStability.                                                          *)
(***************************************************************************)
\* the day of the latest in-tolerance Hit among the first k days, 0 without
LastHitDay(k) ==
    LET hits == {j \in 1..k : events[j].kind = "Hit" /\ events[j].tol}
    IN  IF hits = {} THEN 0 ELSE SetMax(hits)

\* C23: the MODIFIED/UNMODIFIED decision for a Hit compares its identity only
\* with the identity of the most recent earlier in-tolerance Hit, also across
\* the days between them; older Hits are never consulted: Hit(A), Hit(B),
\* Hit(A) on consecutive days gives MODIFIED on the third day.
C23_LastHitOnly ==
    /\ \A k \in 1..i :
          (events[k].kind = "Hit" /\ events[k].tol
             /\ PrevStatus(k) \in {"ADDED", "MODIFIED", "UNMODIFIED"})
            => /\ LastHitDay(k - 1) >= 1
               /\ result[k] = IF events[k].id = events[LastHitDay(k - 1)].id
                              THEN "UNMODIFIED" ELSE "MODIFIED"
    /\ \A k \in 1..i : result[k] \in {"MODIFIED", "UNMODIFIED"} /\ events[k].kind = "Hit"
          => LastHitDay(k - 1) >= 1
    /\ (i >= 3 /\ SubSeq(events, i - 2, i)
                    = <<Hit("A", TRUE), Hit("B", TRUE), Hit("A", TRUE)>>)
         => result[i] = "MODIFIED"

C23_Witness ==
    /\ i = 5
    /\ events = <<Hit("A", TRUE), Hit("B", TRUE), NoData, NoData, Hit("A", TRUE)>>
    /\ result = <<"ADDED", "MODIFIED", "UNMODIFIED", "UNMODIFIED", "MODIFIED">>

\* the days (counted from 0, as the keys of drifts are) of the timeline whose
\* observation carries a capture time
CaptureDays == {k \in 0..(i - 1) : events[k + 1].kind = "Hit"}

\* some day of the timeline has the status REMOVED
HadRemoval == \E k \in 1..i : result[k] = "REMOVED"

\* C24, as stated: a drift is recorded only for an observation whose
\* resulting status is REMOVED, none for a day whose status is MISSING,
\* ADDED, MODIFIED or UNMODIFIED.
C24_DriftOnlyOfRemovedDay ==
    (program = "live" /\ pc = "done")
        => \A k \in DOMAIN drifts : result[k + 1] = "REMOVED"

\* C24, amended: drifts are recorded only for a timeline with a day whose
\* status is REMOVED; for such a timeline the drift of every day whose
\* observation carries a capture time is recorded, whatever the status of
\* that day, and none for a day without capture time.
C24_DriftsOfRemovedTimeline ==
    /\ (program = "live" /\ pc = "loop" /\ i >= 1)
         => /\ DOMAIN current_drifts = CaptureDays
            /\ row # <<>> /\ row[1].memento_datetime # <<>>
                 => current_drifts[i - 1] = row[1].memento_datetime[1]
    /\ (program = "live" /\ pc = "done")
         => /\ DOMAIN drifts = IF HadRemoval THEN CaptureDays ELSE {}
            /\ \A k \in DOMAIN drifts : drifts[k] = <<current_drifts[k]>>
    /\ program = "legacy" => drifts = <<>>

C24_Witness ==
    /\ program = "live" /\ pc = "done"
    /\ SubSeq(result, 1, 2) = <<"ADDED", "REMOVED">>
    /\ events[2] = Miss404
    /\ 0 \in DOMAIN drifts
    /\ 1 \notin DOMAIN drifts

\* the number of days among the first k with the status
CountStatus(status, k) == Cardinality({j \in 1..k : result[j] = status})

\* C27: after every prefix of a timeline the number of ADDED statuses minus
\* the number of REMOVED statuses is 1 when the current status is ADDED,
\* MODIFIED or UNMODIFIED and 0 when it is MISSING or REMOVED; ADDED only
\* follows MISSING or REMOVED (or starts the timeline), REMOVED only follows
\* ADDED, MODIFIED or UNMODIFIED, and MODIFIED and UNMODIFIED never follow
\* MISSING or REMOVED.
C27_AddedMinusRemoved ==
    program \in {"live", "legacy"}
        => /\ CountStatus("ADDED", i) - CountStatus("REMOVED", i)
                = IF previous_status \in {"ADDED", "MODIFIED", "UNMODIFIED"} THEN 1 ELSE 0
           /\ i >= 1 => previous_status = result[i]
           /\ \A k \in 1..i :
                 /\ result[k] = "ADDED" => PrevStatus(k) \in {"MISSING", "REMOVED"}
                 /\ result[k] = "REMOVED"
                      => PrevStatus(k) \in {"ADDED", "MODIFIED", "UNMODIFIED"}
                 /\ result[k] \in {"MODIFIED", "UNMODIFIED"}
                      => PrevStatus(k) \notin {"MISSING", "REMOVED"}

C27_Witness ==
    /\ program = "legacy"
    /\ result = <<"ADDED", "REMOVED", "MISSING", "ADDED", "UNMODIFIED">>
    /\ CountStatus("ADDED", i) = 2
    /\ CountStatus("REMOVED", i) = 1

(***************************************************************************)
(* The crawl jobs, checked under SpecPartition.                            *)
(***************************************************************************)
\* how often a job is in a list
Occurrences(job, list) == Cardinality({k \in 1..Len(list) : list[k] = job})

\* how often a job is in the partitions
Placements(job) ==
    Cardinality({slot \in (1..Len(partition)) \X (1..MaxJobs + 1) :
                   /\ slot[2] <= Len(partition[slot[1]])
                   /\ partition[slot[1]][slot[2]] = job})

\* C25: partition_jobs(jobs, n) places every job of the input list in exactly
\* one of the n returned partitions, none lost and none duplicated, and the
\* sizes of any two partitions differ by at most one, for every list and
\* every n >= 1.
C25_PartitionJobs ==
    (program = "partition_jobs" /\ pc = "done")
        => /\ Len(partition) = n_partitions
           /\ \A job \in Jobs : Placements(job) = Occurrences(job, submitted)
           /\ \A v, w \in 1..Len(partition) :
                 Len(partition[v]) - Len(partition[w]) \in {0 - 1, 0, 1}

C25_Witness ==
    /\ program = "partition_jobs" /\ pc = "done"
    /\ submitted = <<"a", "a", "b", "a">>
    /\ partition = <<<<"b", "a">>, <<"a">>, <<"a">>>>

(***************************************************************************)
(* The comparison of the live and the archived headers, checked under      *)
(* SpecCompare.                                                            *)
(***************************************************************************)
Compared == program = "compare_security_headers" /\ pc = "done"

\* the keys whose normalize_headers entries differ, and those whose
\* classify_headers entries differ
SyntaxDiffers == {key \in Keys : normalized.live[key] # normalized.archived[key]}

SemanticsDiffer == {key \in Keys : classified.live[key] # classified.archived[key]}

\* C26: for every mechanism key and one Origin, two Headers values with equal
\* normalize_headers entries for the key have equal classify_headers entries
\* for it; so compare_security_headers reports every semantic difference,
\* always together with a syntactic one, and the url ends in exactly one of
\* DIFFERENT and EQUAL.
C26_SyntaxCoversSemantics ==
    /\ (program = "compare_security_headers" /\ pc \in {"mechanisms", "done"})
         => SemanticsDiffer \subseteq SyntaxDiffers
    /\ Compared
        => /\ \A key \in Keys :
                 /\ ("SYNTAX_DIFFERENCE_" \o key) \in comparison <=> key \in SyntaxDiffers
                 /\ ("SEMANTICS_DIFFERENCE_" \o key) \in comparison
                      <=> key \in SemanticsDiffer
           /\ "SEMANTICS_DIFFERENCE" \in comparison <=> SemanticsDiffer # {}
           /\ "SEMANTICS_DIFFERENCE" \in comparison => "SYNTAX_DIFFERENCE" \in comparison
           /\ ("DIFFERENT" \in comparison) # ("EQUAL" \in comparison)
           /\ "EQUAL" \in comparison <=> SyntaxDiffers = {}

C26_Witness ==
    /\ Compared
    /\ headers = ("Strict-Transport-Security" :> Str("max-age=31536000;includeSubDomains"))
    /\ archived_headers
         = ("Strict-Transport-Security" :> Str("includeSubDomains;max-age=31536000"))
    /\ comparison = {"EQUAL"}

(***************************************************************************)
(* TLS enforcement over several policies, checked under SpecHeaders.       *)
(***************************************************************************)
\* the directive names of each comma-separated policy of a raw value
policy_names(value) ==
    LET policies == split(value, Ord[","])
    IN  [k \in 1..Len(policies) |->
            Range(directive_names(split(policies[k], Ord[";"]), 1))]

\* the TLS directives that occur anywhere in a raw value, as one policy
tls_directives_anywhere(value) ==
    LET names == UNION Range(policy_names(value))
    IN  (IF Str("block-all-mixed-content") \in names
         THEN Str("block-all-mixed-content;") ELSE Str(""))
          \o (IF Str("upgrade-insecure-requests") \in names
              THEN Str("upgrade-insecure-requests") ELSE Str(""))

\* C28, as stated: the TLS classification of a header depends only on which
\* of block-all-mixed-content and upgrade-insecure-requests occur anywhere in
\* the header: it is the level of the one policy that holds the directives
\* that occur.
C28_DistributionIndependent ==
    (Classified /\ Present("Content-Security-Policy"))
        => classified["Content-Security-Policy::TLS"]
             = classify_csp_tls(tls_directives_anywhere(value_of("Content-Security-Policy")))

\* C28, amended: the TLS classification depends only on which of the two
\* directives each comma-separated policy holds: UPGRADE_INSECURE_REQUESTS
\* when some policy holds upgrade-insecure-requests without
\* block-all-mixed-content, else BLOCK_ALL_MIXED_CONTENT when some policy
\* holds block-all-mixed-content, else UNSAFE; both directives in one policy
\* give BLOCK_ALL_MIXED_CONTENT, in two policies UPGRADE_INSECURE_REQUESTS.
C28_PerPolicyDistribution ==
    (Classified /\ Present("Content-Security-Policy"))
        => LET names == policy_names(value_of("Content-Security-Policy"))
               upgrade == Str("upgrade-insecure-requests")
               block == Str("block-all-mixed-content")
           IN  classified["Content-Security-Policy::TLS"]
                 = IF \E k \in 1..Len(names) : upgrade \in names[k] /\ block \notin names[k]
                   THEN CspTLS.UPGRADE_INSECURE_REQUESTS
                   ELSE IF \E k \in 1..Len(names) : block \in names[k]
                   THEN CspTLS.BLOCK_ALL_MIXED_CONTENT
                   ELSE CspTLS.UNSAFE

C28_Witness ==
    /\ Classified
    /\ value_of("Content-Security-Policy")
         = Str("block-all-mixed-content,upgrade-insecure-requests")
    /\ classified["Content-Security-Policy::TLS"] = CspTLS.UPGRADE_INSECURE_REQUESTS
    /\ classify_csp_tls(Str("block-all-mixed-content;upgrade-insecure-requests"))
         = CspTLS.BLOCK_ALL_MIXED_CONTENT

\* ---------------------------------------------------------------------------
\* C29: in the live-header stability timeline of one target and one header,
\* the flag of a date with a row is true exactly when all the (aggregated)
\* values observed up to and including that date are equal; the flag of a
\* date without a row is the flag of the previous date, true on the first
\* date; so no true flag follows a false one.
ObservedUpTo(date) ==
    {live_data[d][1].aggregated : d \in {e \in 1..date : live_data[e] # <<>>}}

C29_LiveHeaderStability ==
    program = "analyze_live_headers" =>
        /\ \A date \in DOMAIN stable :
              IF live_data[date] # <<>>
              THEN stable[date] =
                      (\A v, w \in ObservedUpTo(date) : v = w)
              ELSE stable[date] =
                      (IF date = 1 THEN TRUE ELSE stable[date - 1])
        /\ \A d, e \in DOMAIN stable :
              (d < e /\ ~stable[d]) => ~stable[e]

\* the timeline is complete; it starts with a date without a row, a date
\* with a row then turns the flag false, and a later date without a row
\* copies the false flag
C29_Witness ==
    /\ program = "analyze_live_headers" /\ pc = "done"
    /\ live_data[1] = <<>> /\ stable[1]
    /\ \E d \in 2..NDays, e \in 3..NDays :
          /\ d < e
          /\ live_data[d] # <<>> /\ stable[d - 1] /\ ~stable[d]
          /\ live_data[e] = <<>> /\ ~stable[e]

\* ---------------------------------------------------------------------------
\* C30: a crawl worker inserts exactly one row for every job of its job
\* list, in list order, a data row when the crawl succeeds and an error row
\* when it raises CrawlingException; a failed job never stops the worker
\* from processing the remaining jobs.
CrawlFails(k) ==
    \/ outcomes[k] \in {"RequestException", "TimeoutError"}
    \/ program = "cdx_worker" /\ outcomes[k] # "JSON"

OneRowPerJob ==
    /\ pc = "done"
    /\ Len(table) = Len(jobs)
    /\ \A k \in 1..Len(jobs) :
          /\ table[k].job = jobs[k]
          /\ table[k].kind = (IF CrawlFails(k) THEN "error" ELSE "data")

C30_OneRowPerJob ==
    (program \in Workers /\ pc # "jobs") => OneRowPerJob

\* the part of C30 that the code keeps: worker of collect_archive_data.py
C30_ArchiveWorker ==
    (program = "worker" /\ pc # "jobs") => OneRowPerJob

\* worker has gone through a list whose first job failed and whose later
\* job succeeded
C30_ArchiveWorkerWitness ==
    /\ program = "worker" /\ pc = "done" /\ Len(jobs) >= 3
    /\ table[1].kind = "error" /\ table[2].kind = "data"
    /\ table[3].kind = "error"

====
